---- MODULE Spec2Model ----
(***************************************************************************)
(* nascast: the cache store (cache.rs), the metadata resolvers (movie.rs,  *)
(* tv.rs, media.rs) and the indexing run (main.rs generate_content).       *)
(*                                                                         *)
(* File and folder name classification (movie.rs, tv.rs) and the TV        *)
(* library walker (tv.rs scan_tv_directory).                               *)
(*                                                                         *)
(* Five specifications share the variables below:                          *)
(*   SpecCache    any sequence of MediaCache store / lookup calls          *)
(*   SpecWriters  two connections writing the same movie key concurrently  *)
(*   Spec         one run of generate_content over movies and TV folders   *)
(*   SpecParse    calls of the three name parsers on sample names          *)
(*   SpecScan     repeated scan_tv_directory calls on one directory tree   *)
(***************************************************************************)
EXTENDS Integers, Sequences, FiniteSets, TLC

VARIABLES
    movies,        \* table movies: set of rows [name, year, path_hash, json_data]
    tv_series,     \* table tv_series: set of rows [name, year, json_data]
    tv_episodes,   \* table tv_episodes: set of rows [series_name, season, episode, json_data]
    lastStore,     \* history: record given to the latest successful store, per key space and key
    looked,        \* history: the latest lookup call and what it returned
    nops,          \* number of MediaCache calls made so far (SpecCache)
    writers,       \* SpecWriters: per connection, position in store_movie and its locals
    landed,        \* SpecWriters: connections in the order their INSERT OR REPLACE executed
    cache,         \* generate_content: TRUE when MediaCache::new succeeded (cache is Some)
    noop,          \* generate_content: the --noop flag
    pc,            \* generate_content: where the run is
    movie_files,   \* identities parsed from the movies folder, in walk order
    mi,            \* index of the next identity to resolve
    movie_results, \* history: the result of each movie resolution, in order
    media_infos,   \* the folder's resolved movies not yet published
    all_movie_infos, \* resolved movies published so far
    tv_folders,    \* per TV folder, what scan_tv_directory returns for it
    fi,            \* index of the next TV folder
    series_list,   \* the series of the TV folder being processed
    si,            \* index of the next series in series_list
    cur,           \* the series being enriched (at most one), with its episode index
    all_tv_series, \* (series_data, series_info) pairs pushed so far
    requests,      \* history: requests sent to the provider, in order
    last,          \* history: the latest resolver call
    search_index,  \* search-index.json: None until written, then its entries
    parsed,        \* SpecParse: the latest call of a text function, its arguments and its result
    tree,          \* SpecScan: the TV library directory (unordered: a canonical listing)
    scans,         \* SpecScan: the two latest scans, each with the order read_dir listed entries in
    nscans         \* SpecScan: number of scans made so far

cacheVars == <<movies, tv_series, tv_episodes>>
runVars == <<cache, noop, pc, movie_files, mi, movie_results, media_infos, all_movie_infos,
             tv_folders, fi, series_list, si, cur, all_tv_series, requests, last, search_index>>
textVars == <<parsed, tree, scans, nscans>>
vars == <<movies, tv_series, tv_episodes, lastStore, looked, nops, writers, landed, runVars, textVars>>

----------------------------------------------------------------------------
(* Rust values *)

None == [some |-> FALSE]
Some(x) == [some |-> TRUE, val |-> x]
Ok(x) == [ok |-> TRUE, val |-> x]
Err(e) == [ok |-> FALSE, err |-> e]

\* A PathBuf is a byte string that may or may not be valid UTF-8.
Utf8Path(s) == [bytes |-> s, utf8 |-> TRUE]
RawPath(s) == [bytes |-> s, utf8 |-> FALSE]

\* Path::to_str
to_str(p) == IF p.utf8 THEN Some(p.bytes) ELSE None

----------------------------------------------------------------------------
(* Bounds and sample values *)

MaxCacheOps == 3

MoviePaths == {Utf8Path("Movies/a.mp4"), RawPath("Movies/\\xff/c.mp4")}
MovieNames == {"Alien", "Brazil"}
SeriesNames == {"Lost", "Show"}
Seasons == {1}
Episodes == {1, 2}

\* DefaultHasher over the path, printed in decimal: one key per distinct path.
PathHash(p) == <<"hash", p.bytes, p.utf8>>

MovieInfo(name, path) ==
    [name |-> name, year |-> 1979, director |-> "Ridley Scott", path |-> path,
     info_url |-> <<"https://www.imdb.com/title/", "tt0078748">>, poster_url |-> <<"https://", "img/p.jpg">>,
     plot |-> "P", genre |-> "Horror", actors |-> "Sigourney Weaver",
     rotten_tomatoes_rating |-> None]

MovieInfos ==
    {MovieInfo("Alien", Utf8Path("Movies/a.mp4")), MovieInfo("Brazil", Utf8Path("Movies/a.mp4")),
     MovieInfo("Alien", RawPath("Movies/\\xff/c.mp4"))}

TvSeriesInfo(name, plot) ==
    [name |-> name, year |-> Some(2004), director |-> "N/A",
     info_url |-> <<"https://www.imdb.com/title/", "tt0411008">>, poster_url |-> <<"https://", "img/s.jpg">>,
     plot |-> plot, genre |-> "Drama", actors |-> "Matthew Fox",
     rotten_tomatoes_rating |-> None]

TvSeriesInfos == {TvSeriesInfo("Lost", "P1"), TvSeriesInfo("Lost", "P2"), TvSeriesInfo("Show", "P1")}

EpisodeTemplateData(title, episode) ==
    [title |-> title, episode_number |-> episode, plot |-> None, imdb_rating |-> None,
     aired_date |-> None, director |-> None, media_ref |-> ""]

EpisodeDatas == {EpisodeTemplateData("Pilot", 1), EpisodeTemplateData("", 2)}

MovieKeys == {PathHash(p) : p \in MoviePaths}
EpisodeKeys == {"Show"} \X Seasons \X Episodes

----------------------------------------------------------------------------
(* serde_json, as used by the cache *)

\* A stored json_data column: the text of a serialized record, the empty
\* string, text that is not a snapshot of the expected type, or a value that
\* is not text at all.
Json(rec) == [kind |-> "json", rec |-> rec]
EmptyText == [kind |-> "empty"]
Malformed == [kind |-> "malformed"]
NotText == [kind |-> "blob"]

\* serde_json::to_string(movie): every field serializes, except that a PathBuf
\* that is not valid UTF-8 makes the serializer fail.
to_string_movie(movie) ==
    IF to_str(movie.path).some THEN Ok(Json(movie)) ELSE Err("path contains invalid UTF-8 characters")

\* serde_json::to_string of the TV snapshots: strings, numbers, URLs and options only.
to_string_tv(rec) == Ok(Json(rec))

\* Result::unwrap_or_default on a String
unwrap_or_default(r) == IF r.ok THEN r.val ELSE EmptyText

\* row.get::<String>(0): fails for a column that is not text
row_get(json_data) == IF json_data.kind = "blob" THEN Err("InvalidColumnType") ELSE Ok(json_data)

\* serde_json::from_str::<T>
from_str(json_data) == IF json_data.kind = "json" THEN Ok(json_data.rec) ELSE Err("syntax")

FirstDecodableStrict(rows) ==
    IF \E r \in rows : ~row_get(r.json_data).ok THEN Err("InvalidColumnType")
    ELSE IF \E r \in rows : ~from_str(r.json_data).ok THEN Err("syntax")
    ELSE IF rows = {} THEN Ok(None)
    ELSE Ok(Some(from_str((CHOOSE r \in rows : TRUE).json_data).val))

\* The body of the lookups' for loop: the first row that reads and parses.
FirstDecodable(rows) ==
    LET good == {r \in rows : row_get(r.json_data).ok /\ from_str(r.json_data).ok}
    IN  IF good = {} THEN Ok(None)
        ELSE Ok(Some(from_str((CHOOSE r \in good : TRUE).json_data).val))

----------------------------------------------------------------------------
(* MediaCache (cache.rs).  Every call takes dbfail: whether SQLite fails the *)
(* statement (prepare / execute returns Err).                               *)

\* INSERT OR REPLACE with UNIQUE(path_hash)
InsertMovieRowJsonOnly(table, row) ==
    IF \E r \in table : r.path_hash = row.path_hash
    THEN {IF r.path_hash = row.path_hash THEN [r EXCEPT !.json_data = row.json_data] ELSE r : r \in table}
    ELSE table \cup {row}

InsertMovieRow(table, row) ==
    {r \in table : r.path_hash # row.path_hash} \cup {row}

\* INSERT OR REPLACE with UNIQUE(name)
InsertSeriesRow(table, row) ==
    {r \in table : r.name # row.name} \cup {row}

\* INSERT OR REPLACE with UNIQUE(series_name, season, episode)
InsertEpisodeRow(table, row) ==
    {r \in table : <<r.series_name, r.season, r.episode>> # <<row.series_name, row.season, row.episode>>}
        \cup {row}

\* The row store_movie binds to the statement (params! at cache.rs 68-73).
MovieRow(movie, path_hash, json_data) ==
    [name |-> movie.name, year |-> movie.year, path_hash |-> path_hash, json_data |-> json_data]

store_movie_KeyedByName(table, movie, path_hash, dbfail) ==
    LET json_data == unwrap_or_default(to_string_movie(movie))
        row == MovieRow(movie, <<"hash", movie.name, TRUE>>, json_data)
    IN  IF dbfail THEN [res |-> Err("db"), table |-> table]
        ELSE [res |-> Ok("unit"), table |-> InsertMovieRow(table, row)]

\* store_movie: result and the table afterwards
store_movie(table, movie, path_hash, dbfail) ==
    LET json_data == unwrap_or_default(to_string_movie(movie))
        row == MovieRow(movie, path_hash, json_data)
    IN  IF dbfail THEN [res |-> Err("db"), table |-> table]
        ELSE [res |-> Ok("unit"), table |-> InsertMovieRow(table, row)]

get_movie_by_path_hash(table, path_hash, dbfail) ==
    IF dbfail THEN Err("db")
    ELSE FirstDecodable({r \in table : r.path_hash = path_hash})

store_tv_series(table, series, dbfail) ==
    LET json_data == unwrap_or_default(to_string_tv(series))
        row == [name |-> series.name, year |-> series.year, json_data |-> json_data]
    IN  IF dbfail THEN [res |-> Err("db"), table |-> table]
        ELSE [res |-> Ok("unit"), table |-> InsertSeriesRow(table, row)]

get_tv_series_by_name(table, series_name, dbfail) ==
    IF dbfail THEN Err("db")
    ELSE FirstDecodable({r \in table : r.name = series_name})

store_tv_episode(table, series_name, season, episode, data, dbfail) ==
    LET json_data == unwrap_or_default(to_string_tv(data))
        row == [series_name |-> series_name, season |-> season, episode |-> episode, json_data |-> json_data]
    IN  IF dbfail THEN [res |-> Err("db"), table |-> table]
        ELSE [res |-> Ok("unit"), table |-> InsertEpisodeRow(table, row)]

get_tv_episode(table, series_name, season, episode, dbfail) ==
    IF dbfail THEN Err("db")
    ELSE FirstDecodable({r \in table : r.series_name = series_name /\ r.season = season /\ r.episode = episode})

----------------------------------------------------------------------------
(* Text that the code parses character by character is a sequence of         *)
(* one-character strings.                                                   *)

DigitValue(c) ==
    CASE c = "0" -> 0 [] c = "1" -> 1 [] c = "2" -> 2 [] c = "3" -> 3 [] c = "4" -> 4
      [] c = "5" -> 5 [] c = "6" -> 6 [] c = "7" -> 7 [] c = "8" -> 8 [] c = "9" -> 9

IsDigit(c) == c \in {"0", "1", "2", "3", "4", "5", "6", "7", "8", "9"}

RECURSIVE DecimalValue(_)
DecimalValue(s) ==
    IF s = <<>> THEN 0
    ELSE 10 * DecimalValue(SubSeq(s, 1, Len(s) - 1)) + DigitValue(s[Len(s)])

U16Max == 65535

\* str::parse::<u16>: an optional '+', then one or more digits, within 16 bits
parse_u16(s) ==
    LET body == IF s # <<>> /\ s[1] = "+" THEN Tail(s) ELSE s IN
    IF body = <<>> THEN Err("empty")
    ELSE IF \E i \in 1..Len(body) : ~IsDigit(body[i]) THEN Err("invalid digit")
    ELSE IF DecimalValue(body) > U16Max THEN Err("number too large")
    ELSE Ok(DecimalValue(body))

\* str::split(c).next(): the text before the first occurrence of c
SplitFirst(s, c) ==
    IF \E i \in 1..Len(s) : s[i] = c
    THEN SubSeq(s, 1, (CHOOSE i \in 1..Len(s) : s[i] = c /\ \A j \in 1..(i - 1) : s[j] # c) - 1)
    ELSE s

\* A text that may be a URL is the pair <<scheme and authority prefix, rest>>;
\* the prefix is empty when the text has no scheme.
PosterOk == <<"https://", "img/p.jpg">>
PosterNA == <<"", "N/A">>

\* Url::parse: text without a scheme is a relative URL and is rejected.
Url_parse(text) == IF text[1] = "" THEN Err("relative URL without a base") ELSE Ok(text)

----------------------------------------------------------------------------
(* The metadata provider (media.rs) *)

Y1979 == <<"1", "9", "7", "9">>
Y70000 == <<"7", "0", "0", "0", "0">>
YNA == <<"N", "/", "A">>
EnDash == "en dash"
Y2004Range == <<"2", "0", "0", "4", EnDash, "2", "0", "1", "0">>

SomeRatings ==
    <<[Source |-> "Internet Movie Database", Value |-> "8.5/10"],
      [Source |-> "Rotten Tomatoes", Value |-> "93%"]>>

MovieDoc(year, poster, ratings) ==
    [Type |-> "movie", Title |-> "Alien", Year |-> year, Poster |-> poster, Director |-> "Ridley Scott",
     Plot |-> "P", Genre |-> "Horror", Actors |-> "Sigourney Weaver", imdbID |-> "tt0078748",
     Ratings |-> ratings]

SeriesDoc(year, poster) ==
    [Type |-> "series", Title |-> "Lost", Year |-> year, Poster |-> poster, Director |-> "N/A",
     Plot |-> "N/A", Genre |-> "Drama", Actors |-> "Matthew Fox", imdbID |-> "tt0411008",
     Ratings |-> <<>>]

EpisodeDoc ==
    [Type |-> "episode", Title |-> "Pilot", Year |-> <<"2", "0", "0", "4">>, Poster |-> PosterNA,
     Director |-> "J.J. Abrams", Plot |-> "N/A", Genre |-> "Drama", Actors |-> "Matthew Fox",
     imdbID |-> "tt0636289", Ratings |-> <<>>, Released |-> "22 Sep 2004", imdbRating |-> "N/A"]

\* The provider's answer when it finds nothing: a document without a Type tag.
ErrorDoc == [Response |-> "False", Error |-> "not found"]

\* What one HTTP exchange with the provider yields.
NetworkError == [net |-> FALSE, doc |-> ErrorDoc]
Body(doc) == [net |-> TRUE, doc |-> doc]

MovieAnswers ==
    {NetworkError, Body(ErrorDoc),
     Body(MovieDoc(Y1979, PosterOk, SomeRatings)),
     Body(MovieDoc(Y1979, PosterOk, <<>>)),
     Body(MovieDoc(YNA, PosterOk, <<>>)),
     Body(MovieDoc(Y70000, PosterOk, <<>>)),
     Body(MovieDoc(Y1979, PosterNA, <<>>)),
     Body(SeriesDoc(Y2004Range, PosterOk))}

SeriesAnswers ==
    {NetworkError,
     Body(SeriesDoc(Y2004Range, PosterOk)),
     Body(SeriesDoc(Y2004Range, PosterNA)),
     Body(MovieDoc(Y1979, PosterOk, <<>>))}

EpisodeAnswers ==
    {NetworkError, Body(EpisodeDoc), Body(ErrorDoc), Body(SeriesDoc(Y2004Range, PosterOk))}

TypeTags == {"movie", "series", "episode"}

HasTag(doc) == "Type" \in DOMAIN doc

\* omdb_get_metadata: send()?.json::<OmdbResponse>()? -- the body must be a
\* document of one of the three tagged shapes.
omdb_get_metadata(http) ==
    IF ~http.net THEN Err("network")
    ELSE IF HasTag(http.doc) /\ http.doc.Type \in TypeTags THEN Ok(http.doc)
    ELSE Err("decode")

\* omdb_get_metadata_with_season_episode: json::<serde_json::Value>() -- any JSON body
omdb_get_metadata_with_season_episode(http) ==
    IF ~http.net THEN Err("network") ELSE Ok(http.doc)

\* OmdbResponse::imdb_url
imdb_url(doc) == <<"https://www.imdb.com/title/", doc.imdbID>>

\* ratings.iter().find(|r| r.source == "Rotten Tomatoes").map(|r| r.value)
rotten_tomatoes(ratings) ==
    IF \E i \in 1..Len(ratings) : ratings[i].Source = "Rotten Tomatoes"
    THEN Some(ratings[CHOOSE i \in 1..Len(ratings) :
                  /\ ratings[i].Source = "Rotten Tomatoes"
                  /\ \A j \in 1..(i - 1) : ratings[j].Source # "Rotten Tomatoes"].Value)
    ELSE None

\* value[key].as_str() on a serde_json::Value
as_str(doc, key) == IF key \in DOMAIN doc THEN Some(doc[key]) ELSE None

\* Option<&str>::filter(|s| *s != PosterNA)
not_na(opt) == IF opt.some /\ opt.val = "N/A" THEN None ELSE opt

----------------------------------------------------------------------------
(* Resolvers (movie.rs, tv.rs) *)

FetchedMovieInfo_PathFromTitle(doc, year, poster_url, path) ==
    [name |-> doc.Title, year |-> year, director |-> doc.Director, path |-> Utf8Path(doc.Title),
     info_url |-> imdb_url(doc), poster_url |-> poster_url, plot |-> doc.Plot,
     genre |-> doc.Genre, actors |-> doc.Actors,
     rotten_tomatoes_rating |-> rotten_tomatoes(doc.Ratings)]

\* The MovieInfo literal of get_movie_info
FetchedMovieInfo(doc, year, poster_url, path) ==
    [name |-> doc.Title, year |-> year, director |-> doc.Director, path |-> path,
     info_url |-> imdb_url(doc), poster_url |-> poster_url, plot |-> doc.Plot,
     genre |-> doc.Genre, actors |-> doc.Actors,
     rotten_tomatoes_rating |-> rotten_tomatoes(doc.Ratings)]

\* The answer is a movie document whose year and poster parse (movie.rs 102-131)
MovieParses(http) ==
    /\ omdb_get_metadata(http).ok
    /\ http.doc.Type = "movie"
    /\ parse_u16(http.doc.Year).ok
    /\ Url_parse(http.doc.Poster).ok

\* What the caller does with the result of store_movie after a fetch
AfterStoreFatal(fetched, st) == IF st.res.ok THEN Ok(fetched) ELSE Err("db")
AfterStore(fetched, st) == Ok(fetched)

\* get_movie_info: the result and the movies table afterwards
get_movie_info(movie_file_info, has_cache, path_hash, table, http, wfail) ==
    LET r == omdb_get_metadata(http) IN
    IF ~r.ok THEN [res |-> r, table |-> table]
    ELSE IF r.val.Type = "movie" THEN
        LET year == parse_u16(r.val.Year)
            poster == Url_parse(r.val.Poster)
        IN  IF ~year.ok THEN [res |-> year, table |-> table]
            ELSE IF ~poster.ok THEN [res |-> poster, table |-> table]
            ELSE LET fetched == FetchedMovieInfo(r.val, year.val, poster.val, movie_file_info.path)
                     st == store_movie(table, fetched, path_hash, wfail)
                 IN  IF has_cache THEN [res |-> AfterStore(fetched, st), table |-> st.table]
                     ELSE [res |-> Ok(fetched), table |-> table]
    ELSE [res |-> Err("Wrong OMDB response"), table |-> table]

\* What get_movie_info_logged does with the cache lookup: Ok(Some) returns the
\* record, Err returns the error (the ? operator), Ok(None) goes on to fetch.
CachedOrFetchIgnoringCache(lk, table, fetch) ==
    [res |-> fetch.res, table |-> fetch.table, fetched |-> TRUE]

CachedOrFetch(lk, table, fetch) ==
    IF ~lk.ok THEN [res |-> lk, table |-> table, fetched |-> FALSE]
    ELSE IF lk.val.some THEN [res |-> Ok(lk.val.val), table |-> table, fetched |-> FALSE]
    ELSE [res |-> fetch.res, table |-> fetch.table, fetched |-> TRUE]

\* get_movie_info_logged: the result, the movies table afterwards, the lookup
\* made and whether the provider was asked
get_movie_info_logged(movie_file_info, has_cache, table, rfail, http, wfail) ==
    LET path_hash == PathHash(movie_file_info.path)
        lk == get_movie_by_path_hash(table, path_hash, rfail)
        fetch == get_movie_info(movie_file_info, has_cache, path_hash, table, http, wfail)
        out == IF has_cache THEN CachedOrFetch(lk, table, fetch)
               ELSE [res |-> fetch.res, table |-> fetch.table, fetched |-> TRUE]
    IN  [res |-> out.res, table |-> out.table, fetched |-> out.fetched,
         lookup |-> IF has_cache THEN lk ELSE Ok(None)]

\* get_series_info (tv.rs): one request, no cache involved
get_series_info(series_name, http) ==
    LET r == omdb_get_metadata(http) IN
    IF ~r.ok THEN r
    ELSE IF r.val.Type = "series" THEN
        LET info_url == Url_parse(imdb_url(r.val))
            poster == Url_parse(r.val.Poster)
            y == parse_u16(SplitFirst(r.val.Year, EnDash))
        IN  IF ~info_url.ok THEN info_url
            ELSE IF ~poster.ok THEN poster
            ELSE Ok([name |-> r.val.Title, year |-> IF y.ok THEN Some(y.val) ELSE None,
                     director |-> r.val.Director, info_url |-> info_url.val,
                     poster_url |-> poster.val, plot |-> r.val.Plot, genre |-> r.val.Genre,
                     actors |-> r.val.Actors,
                     rotten_tomatoes_rating |-> rotten_tomatoes(r.val.Ratings)])
    ELSE Err("Expected Series response from OMDB but got Movie")

\* get_episode_info (tv.rs): one request, the body read as untyped JSON
get_episode_info(series_name, season, episode, http) ==
    LET r == omdb_get_metadata_with_season_episode(http) IN
    IF ~r.ok THEN r
    ELSE LET t == as_str(r.val, "Title") IN
         Ok([title |-> IF t.some THEN t.val ELSE "", episode_number |-> episode,
             plot |-> not_na(as_str(r.val, "Plot")),
             imdb_rating |-> not_na(as_str(r.val, "imdbRating")),
             aired_date |-> not_na(as_str(r.val, "Released")),
             director |-> not_na(as_str(r.val, "Director")),
             media_ref |-> ""])

----------------------------------------------------------------------------
(* SpecCache: any sequence of MediaCache calls on one connection *)

\* A cache file as MediaCache::new finds it: new, or holding a row whose
\* payload this version cannot read (there is no schema-version negotiation).
LegacyMovies ==
    {[name |-> "Alien", year |-> 1979, path_hash |-> PathHash(Utf8Path("Movies/a.mp4")), json_data |-> Malformed]}
LegacySeries ==
    {[name |-> "Lost", year |-> Some(2004), json_data |-> Malformed]}
LegacyEpisodes ==
    {[series_name |-> "Show", season |-> 1, episode |-> 1, json_data |-> NotText]}

\* The latest resolver call, before any was made
NoCall ==
    [n |-> 0, kind |-> "none", key |-> <<>>, rfail |-> FALSE, lookup |-> Ok(None), fetched |-> FALSE,
     http |-> NetworkError, wfail |-> FALSE, result |-> Err("none"), before |-> <<{}, {}, {}>>,
     nreq |-> 0]

RunIdle ==
    /\ cache = FALSE
    /\ noop = FALSE
    /\ pc = "idle"
    /\ movie_files = <<>>
    /\ mi = 1
    /\ movie_results = <<>>
    /\ media_infos = <<>>
    /\ all_movie_infos = <<>>
    /\ tv_folders = <<>>
    /\ fi = 1
    /\ series_list = <<>>
    /\ si = 1
    /\ cur = <<>>
    /\ all_tv_series = <<>>
    /\ requests = <<>>
    /\ last = NoCall
    /\ search_index = None

NoLookup == [space |-> "none", dbfail |-> FALSE, rows |-> {}, latest |-> None, res |-> Ok(None)]
NeverStored == [m |-> [k \in MovieKeys |-> None],
                s |-> [k \in SeriesNames |-> None],
                e |-> [k \in EpisodeKeys |-> None]]

WritersIdle == <<>>

NoParse == [fn |-> "none"]
TextIdle ==
    /\ parsed = NoParse
    /\ tree = <<>>
    /\ scans = <<>>
    /\ nscans = 0

InitCache ==
    /\ \E legacy \in BOOLEAN :
        /\ movies = IF legacy THEN LegacyMovies ELSE {}
        /\ tv_series = IF legacy THEN LegacySeries ELSE {}
        /\ tv_episodes = IF legacy THEN LegacyEpisodes ELSE {}
    /\ lastStore = NeverStored
    /\ TextIdle
    /\ looked = NoLookup
    /\ nops = 0
    /\ writers = WritersIdle
    /\ landed = <<>>
    /\ RunIdle

CallStoreMovie ==
    \E movie \in MovieInfos, k \in MovieKeys, dbfail \in BOOLEAN :
        LET r == store_movie(movies, movie, k, dbfail) IN
        /\ nops < MaxCacheOps
        /\ movies' = r.table
        /\ lastStore' = IF r.res.ok THEN [lastStore EXCEPT !.m[k] = Some(movie)] ELSE lastStore
        /\ nops' = nops + 1
        /\ UNCHANGED <<textVars, tv_series, tv_episodes, looked, writers, landed, runVars>>

CallStoreTvSeries ==
    \E series \in TvSeriesInfos, dbfail \in BOOLEAN :
        LET r == store_tv_series(tv_series, series, dbfail) IN
        /\ nops < MaxCacheOps
        /\ tv_series' = r.table
        /\ lastStore' = IF r.res.ok THEN [lastStore EXCEPT !.s[series.name] = Some(series)] ELSE lastStore
        /\ nops' = nops + 1
        /\ UNCHANGED <<textVars, movies, tv_episodes, looked, writers, landed, runVars>>

CallStoreTvEpisode ==
    \E k \in EpisodeKeys, data \in EpisodeDatas, dbfail \in BOOLEAN :
        LET r == store_tv_episode(tv_episodes, k[1], k[2], k[3], data, dbfail) IN
        /\ nops < MaxCacheOps
        /\ tv_episodes' = r.table
        /\ lastStore' = IF r.res.ok THEN [lastStore EXCEPT !.e[k] = Some(data)] ELSE lastStore
        /\ nops' = nops + 1
        /\ UNCHANGED <<textVars, movies, tv_series, looked, writers, landed, runVars>>

CallGetMovie ==
    \E k \in MovieKeys, dbfail \in BOOLEAN :
        /\ nops < MaxCacheOps
        /\ looked' = [space |-> "m", key |-> k, dbfail |-> dbfail,
                       rows |-> {r.json_data : r \in {x \in movies : x.path_hash = k}},
                       latest |-> lastStore.m[k],
                       res |-> get_movie_by_path_hash(movies, k, dbfail)]
        /\ nops' = nops + 1
        /\ UNCHANGED <<textVars, movies, tv_series, tv_episodes, lastStore, writers, landed, runVars>>

CallGetTvSeries ==
    \E k \in SeriesNames, dbfail \in BOOLEAN :
        /\ nops < MaxCacheOps
        /\ looked' = [space |-> "s", key |-> k, dbfail |-> dbfail,
                       rows |-> {r.json_data : r \in {x \in tv_series : x.name = k}},
                       latest |-> lastStore.s[k],
                       res |-> get_tv_series_by_name(tv_series, k, dbfail)]
        /\ nops' = nops + 1
        /\ UNCHANGED <<textVars, movies, tv_series, tv_episodes, lastStore, writers, landed, runVars>>

CallGetTvEpisode ==
    \E k \in EpisodeKeys, dbfail \in BOOLEAN :
        /\ nops < MaxCacheOps
        /\ looked' = [space |-> "e", key |-> k, dbfail |-> dbfail,
                       rows |-> {r.json_data : r \in {x \in tv_episodes : <<x.series_name, x.season, x.episode>> = k}},
                       latest |-> lastStore.e[k],
                       res |-> get_tv_episode(tv_episodes, k[1], k[2], k[3], dbfail)]
        /\ nops' = nops + 1
        /\ UNCHANGED <<textVars, movies, tv_series, tv_episodes, lastStore, writers, landed, runVars>>

NextCache ==
    \/ CallStoreMovie
    \/ CallStoreTvSeries
    \/ CallStoreTvEpisode
    \/ CallGetMovie
    \/ CallGetTvSeries
    \/ CallGetTvEpisode

SpecCache == InitCache /\ [][NextCache]_vars

\* C4: a lookup that SQLite executes returns the record given to the most
\* recent successful store for that key in that key space, equal in every
\* field, and not-found when the key was never stored; stores to other keys
\* and other key spaces do not change that.
C4_LookupReturnsLatestStore ==
    (looked.space # "none" /\ ~looked.dbfail) => looked.res = Ok(looked.latest)

\* C6: a lookup that SQLite executes, for a key with no row or with a payload
\* that cannot be deserialized, returns Ok(None), in all three key spaces.
C6_MissIsNotFound ==
    (looked.space # "none" /\ ~looked.dbfail /\ \A j \in looked.rows : j.kind # "json")
        => looked.res = Ok(None)

C6_Witness ==
    /\ looked.space = "e"
    /\ ~looked.dbfail
    /\ looked.rows = {NotText}
    /\ looked.res = Ok(None)
    /\ \E r \in movies : r.json_data = EmptyText

----------------------------------------------------------------------------
(* SpecWriters: two connections to the same cache file each run store_movie *)
(* for the same path hash with different payloads.  A connection first      *)
(* serializes its record, then has SQLite execute one INSERT OR REPLACE      *)
(* statement; SQLite runs a statement atomically or fails it.               *)

Writers == {1, 2}

InitWriters ==
    /\ \E legacy \in BOOLEAN : movies = IF legacy THEN LegacyMovies ELSE {}
    /\ tv_series = {}
    /\ tv_episodes = {}
    /\ lastStore = NeverStored
    /\ TextIdle
    /\ looked = NoLookup
    /\ nops = 0
    /\ \E k \in MovieKeys, m1 \in MovieInfos, m2 \in MovieInfos :
        /\ m1 # m2
        /\ writers = [w \in Writers |->
                        [pc |-> "serialize", movie |-> IF w = 1 THEN m1 ELSE m2, path_hash |-> k,
                         json_data |-> EmptyText, res |-> Ok("unit")]]
    /\ landed = <<>>
    /\ RunIdle

\* cache.rs 63: let json_data = serde_json::to_string(movie).unwrap_or_default();
WriterSerialize(w) ==
    /\ writers[w].pc = "serialize"
    /\ writers' = [writers EXCEPT ![w].pc = "execute",
                                  ![w].json_data = unwrap_or_default(to_string_movie(writers[w].movie))]
    /\ UNCHANGED <<textVars, movies, tv_series, tv_episodes, lastStore, looked, nops, landed, runVars>>

\* cache.rs 65-76: self.conn.execute("INSERT OR REPLACE ...")?; Ok(())
WriterExecute(w) ==
    \E dbfail \in BOOLEAN :
        LET r == store_movie(movies, writers[w].movie, writers[w].path_hash, dbfail) IN
        /\ writers[w].pc = "execute"
        /\ movies' = r.table
        /\ landed' = IF r.res.ok THEN Append(landed, w) ELSE landed
        /\ writers' = [writers EXCEPT ![w].pc = "done", ![w].res = r.res]
        /\ UNCHANGED <<textVars, tv_series, tv_episodes, lastStore, looked, nops, runVars>>

NextWriters == \E w \in Writers : WriterSerialize(w) \/ WriterExecute(w)

SpecWriters == InitWriters /\ [][NextWriters]_vars

RowsAt(table, path_hash) == {r \in table : r.path_hash = path_hash}

\* C5: in every interleaving of two writes to one key, once a write has
\* landed the table holds exactly one row under the key, and it is, column for
\* column, the row of the write that landed last.
C5_LastWriterWins ==
    landed # <<>> =>
        LET w == landed[Len(landed)] IN
        RowsAt(movies, writers[w].path_hash)
            = {MovieRow(writers[w].movie, writers[w].path_hash, writers[w].json_data)}

C5_Witness ==
    /\ Len(landed) = 2
    /\ landed[2] = 1
    /\ writers[1].movie.name # writers[2].movie.name
    /\ to_str(writers[1].movie.path).some
    /\ get_movie_by_path_hash(movies, writers[1].path_hash, FALSE) = Ok(Some(writers[1].movie))
----------------------------------------------------------------------------
(* Spec: one run of generate_content (main.rs): the movies folder, then the *)
(* TV folders.                                                              *)

MaxMovies == 2
MaxTvFolders == 1

FileA == [name |-> "Alien", year |-> Some(1979), path |-> Utf8Path("Movies/a.mp4")]
FileB == [name |-> "Brazil", year |-> None, path |-> Utf8Path("Movies/b.mp4")]
FileC == [name |-> "Cube", year |-> Some(1997), path |-> RawPath("Movies/\\xff/c.mp4")]
RunFiles == {FileA, FileB, FileC}

\* The movies table an earlier run left: the record it resolved for Movies/a.mp4.
WarmMovies ==
    LET rec == MovieInfo("Alien", Utf8Path("Movies/a.mp4")) IN
    {MovieRow(rec, PathHash(rec.path), Json(rec))}

\* TvEpisodeMediaInfo and TvSeriesMediaInfo as scan_tv_directory builds them
TvEpisodeMediaInfo(series_name, season, episode, path) ==
    [series_name |-> series_name, season |-> season, episode |-> episode, path |-> Utf8Path(path),
     title |-> None, plot |-> None, imdb_rating |-> None, air_date |-> None, director |-> None,
     media_ref |-> None]

TvSeriesMediaInfo(name, year, path, episodes) ==
    [name |-> name, year |-> year, path |-> Utf8Path(path), episodes |-> episodes,
     poster_url |-> None, genre |-> None, plot |-> None, actors |-> None]

\* Top-level folders "Show S01" and "Show S02": two series of the same name.
ListA ==
    <<TvSeriesMediaInfo("Show", None, "TV/Show S01",
          <<TvEpisodeMediaInfo("Show", 1, 1, "TV/Show S01/Show.S01E01.mkv")>>),
      TvSeriesMediaInfo("Show", None, "TV/Show S02",
          <<TvEpisodeMediaInfo("Show", 2, 1, "TV/Show S02/Show.S02E01.mkv")>>)>>

\* Folder "Lost (2004)" holding the same episode in two containers.
ListB ==
    <<TvSeriesMediaInfo("Lost", Some(2004), "TV/Lost (2004)",
          <<TvEpisodeMediaInfo("Lost", 1, 1, "TV/Lost (2004)/Lost.S01E01.avi"),
            TvEpisodeMediaInfo("Lost", 1, 1, "TV/Lost (2004)/Lost.S01E01.mkv")>>)>>

ScanResults == {Err("io"), Ok(ListA), Ok(ListB)}

SeqsUpTo(S, n) == UNION {[1..k -> S] : k \in 0..n}

\* The inputs of a run: the movies families exercise the movie resolver and
\* the cache, the TV families the TV loop, the last one both in one run.
RunInputs ==
    {[files |-> f, folders |-> <<>>] : f \in SeqsUpTo(RunFiles, MaxMovies)}
    \cup {[files |-> <<>>, folders |-> t] : t \in SeqsUpTo(ScanResults, MaxTvFolders)}
    \cup {[files |-> <<FileB, FileA>>, folders |-> <<Ok(ListB)>>]}

Init ==
    /\ \E c \in BOOLEAN, table \in {{}, WarmMovies, LegacyMovies} :
        /\ cache = c
        /\ movies = IF c THEN table ELSE {}
    /\ tv_series = {}
    /\ tv_episodes = {}
    /\ lastStore = NeverStored
    /\ TextIdle
    /\ looked = NoLookup
    /\ nops = 0
    /\ writers = WritersIdle
    /\ landed = <<>>
    /\ noop \in BOOLEAN
    /\ pc = "resolve_movies"
    /\ \E input \in RunInputs :
        /\ movie_files = input.files
        /\ tv_folders = input.folders
    /\ mi = 1
    /\ movie_results = <<>>
    /\ media_infos = <<>>
    /\ all_movie_infos = <<>>
    /\ fi = 1
    /\ series_list = <<>>
    /\ si = 1
    /\ cur = <<>>
    /\ all_tv_series = <<>>
    /\ requests = <<>>
    /\ last = NoCall
    /\ search_index = None

Request(type, t, y, season, episode) ==
    [type |-> type, t |-> t, y |-> y, season |-> season, episode |-> episode]

\* filter_map(|info| get_movie_info_logged(..).ok()): the files still to be
\* resolved after one was tried
RemainingAfterAbortOnError(index, len, res) == IF res.ok THEN index + 1 ELSE len + 1
RemainingAfter(index, len, res) == index + 1

\* main.rs 205-208, one element of the iterator chain
ResolveMovie ==
    /\ pc = "resolve_movies"
    /\ mi <= Len(movie_files)
    /\ \E rfail \in BOOLEAN, http \in MovieAnswers, wfail \in BOOLEAN :
        LET info == movie_files[mi]
            r == get_movie_info_logged(info, cache, movies, rfail, http, wfail)
            attempt == cache /\ r.fetched /\ MovieParses(http)
        IN  /\ movies' = r.table
            /\ requests' = IF r.fetched
                           THEN Append(requests, Request("movie", info.name, info.year, None, None))
                           ELSE requests
            /\ movie_results' = Append(movie_results, r.res)
            /\ media_infos' = IF r.res.ok THEN Append(media_infos, r.res.val) ELSE media_infos
            /\ mi' = RemainingAfter(mi, Len(movie_files), r.res)
            /\ last' = [n |-> last.n + 1, kind |-> "movie", key |-> info,
                        rfail |-> cache /\ rfail, lookup |-> r.lookup, fetched |-> r.fetched,
                        http |-> IF r.fetched THEN http ELSE NetworkError,
                        wfail |-> attempt /\ wfail, result |-> r.res, before |-> cacheVars,
                        nreq |-> Len(requests)]
    /\ UNCHANGED <<textVars, search_index, tv_series, tv_episodes, lastStore, looked, nops, writers, landed, cache, noop, pc,
                   movie_files, all_movie_infos, tv_folders, fi, series_list, si, cur, all_tv_series>>

\* main.rs 208: collect() -- the folder's movies have all been tried
CollectMovies ==
    /\ pc = "resolve_movies"
    /\ mi > Len(movie_files)
    /\ pc' = "publish_movies"
    /\ UNCHANGED <<textVars, search_index, cacheVars, lastStore, looked, nops, writers, landed, cache, noop, movie_files, mi,
                   movie_results, media_infos, all_movie_infos, tv_folders, fi, series_list, si, cur,
                   all_tv_series, requests, last>>

\* main.rs 210-229, one iteration: the movie is recorded, then rendered unless
\* --noop; rendering builds the media reference with to_str().unwrap().
PublishMovie ==
    /\ pc = "publish_movies"
    /\ media_infos # <<>>
    /\ all_movie_infos' = Append(all_movie_infos, Head(media_infos))
    /\ media_infos' = Tail(media_infos)
    /\ pc' = IF ~noop /\ ~to_str(Head(media_infos).path).some THEN "panicked" ELSE pc
    /\ UNCHANGED <<textVars, search_index, cacheVars, lastStore, looked, nops, writers, landed, cache, noop, movie_files, mi,
                   movie_results, tv_folders, fi, series_list, si, cur, all_tv_series, requests, last>>

\* main.rs 233
StartTv ==
    /\ pc = "publish_movies"
    /\ media_infos = <<>>
    /\ pc' = "tv"
    /\ UNCHANGED <<textVars, search_index, cacheVars, lastStore, looked, nops, writers, landed, cache, noop, movie_files, mi,
                   movie_results, media_infos, all_movie_infos, tv_folders, fi, series_list, si, cur,
                   all_tv_series, requests, last>>

\* main.rs 235-242 and 277-279: scan the next TV folder; an error is logged
\* and the loop goes on to the next folder.
ScanTvFolder ==
    /\ pc = "tv"
    /\ cur = <<>>
    /\ si > Len(series_list)
    /\ fi <= Len(tv_folders)
    /\ series_list' = IF tv_folders[fi].ok THEN tv_folders[fi].val ELSE <<>>
    /\ si' = 1
    /\ fi' = fi + 1
    /\ UNCHANGED <<textVars, search_index, cacheVars, lastStore, looked, nops, writers, landed, cache, noop, pc, movie_files, mi,
                   movie_results, media_infos, all_movie_infos, tv_folders, cur, all_tv_series,
                   requests, last>>

\* main.rs 248-260: attach the series' provider data
EnrichSeries(series_data, series_info) ==
    IF series_info.some
    THEN [series_data EXCEPT !.poster_url = Some(series_info.val.poster_url),
                             !.genre = Some(series_info.val.genre),
                             !.plot = Some(series_info.val.plot),
                             !.actors = Some(series_info.val.actors),
                             !.year = series_info.val.year]
    ELSE series_data

\* Result::ok
ok(res) == IF res.ok THEN Some(res.val) ELSE None

\* main.rs 243-260
ResolveSeries ==
    /\ pc = "tv"
    /\ cur = <<>>
    /\ si <= Len(series_list)
    /\ \E http \in SeriesAnswers :
        LET series_data == series_list[si]
            res == get_series_info(series_data.name, http)
            series_info == ok(res)
        IN  /\ cur' = <<[series_data |-> EnrichSeries(series_data, series_info),
                         series_info |-> series_info, ei |-> 1]>>
            /\ requests' = Append(requests, Request("series", series_data.name, None, None, None))
            /\ last' = [n |-> last.n + 1, kind |-> "series", key |-> series_data,
                        rfail |-> FALSE, lookup |-> Ok(None), fetched |-> TRUE, http |-> http,
                        wfail |-> FALSE, result |-> res, before |-> cacheVars,
                        nreq |-> Len(requests)]
    /\ UNCHANGED <<textVars, search_index, cacheVars, lastStore, looked, nops, writers, landed, cache, noop, pc, movie_files, mi,
                   movie_results, media_infos, all_movie_infos, tv_folders, fi, series_list, si,
                   all_tv_series>>

\* gen_media_ref: the mount point followed by the path below the folder
gen_media_ref(mount, media_path) == <<mount, to_str(media_path).val>>

\* main.rs 263-272: attach the episode's provider data, then the playback reference
EnrichEpisode(episode, res) ==
    LET e == IF res.ok
             THEN [episode EXCEPT !.title = Some(res.val.title),
                                  !.plot = res.val.plot,
                                  !.imdb_rating = res.val.imdb_rating,
                                  !.air_date = res.val.aired_date,
                                  !.director = res.val.director]
             ELSE episode
    IN  [e EXCEPT !.media_ref = Some(gen_media_ref("tv", episode.path))]

\* main.rs 262-273, one iteration
ResolveEpisode ==
    /\ pc = "tv"
    /\ cur # <<>>
    /\ cur[1].ei <= Len(cur[1].series_data.episodes)
    /\ \E http \in EpisodeAnswers :
        LET c == cur[1]
            episode == c.series_data.episodes[c.ei]
            res == get_episode_info(c.series_data.name, episode.season, episode.episode, http)
        IN  /\ cur' = <<[c EXCEPT !.series_data.episodes[c.ei] = EnrichEpisode(episode, res),
                                  !.ei = c.ei + 1]>>
            /\ requests' = Append(requests, Request("episode", c.series_data.name, None,
                                                    Some(episode.season), Some(episode.episode)))
            /\ last' = [n |-> last.n + 1, kind |-> "episode", key |-> episode,
                        rfail |-> FALSE, lookup |-> Ok(None), fetched |-> TRUE, http |-> http,
                        wfail |-> FALSE, result |-> res, before |-> cacheVars,
                        nreq |-> Len(requests)]
    /\ UNCHANGED <<textVars, search_index, cacheVars, lastStore, looked, nops, writers, landed, cache, noop, pc, movie_files, mi,
                   movie_results, media_infos, all_movie_infos, tv_folders, fi, series_list, si,
                   all_tv_series>>

\* main.rs 274
PushSeries ==
    /\ pc = "tv"
    /\ cur # <<>>
    /\ cur[1].ei > Len(cur[1].series_data.episodes)
    /\ all_tv_series' = Append(all_tv_series, <<cur[1].series_data, cur[1].series_info>>)
    /\ cur' = <<>>
    /\ si' = si + 1
    /\ UNCHANGED <<textVars, search_index, cacheVars, lastStore, looked, nops, writers, landed, cache, noop, pc, movie_files, mi,
                   movie_results, media_infos, all_movie_infos, tv_folders, fi, series_list,
                   requests, last>>

\* main.rs 281: the TV folders are exhausted
FinishTv ==
    /\ pc = "tv"
    /\ cur = <<>>
    /\ si > Len(series_list)
    /\ fi > Len(tv_folders)
    /\ pc' = "done"
    /\ UNCHANGED <<textVars, search_index, cacheVars, lastStore, looked, nops, writers, landed, cache, noop, movie_files, mi,
                   movie_results, media_infos, all_movie_infos, tv_folders, fi, series_list, si, cur,
                   all_tv_series, requests, last>>

----------------------------------------------------------------------------
(* The search index (search.rs, main.rs 355-471) *)

\* search.rs 34-39: the hasher is fed path.to_str(), an Option, then the tag
generate_id(path, media_type) == <<media_type, "_", <<"hash", to_str(path), media_type>>>>

\* PathBuf::from(&name)
PathBuf_from(name) == Utf8Path(name)

\* search.rs 45-56: if let Some(x) = field { meta_parts.push(x.to_string()) }
push_part(meta_parts, field) == IF field.some THEN Append(meta_parts, field.val) ELSE meta_parts

\* [String]::join
RECURSIVE join(_, _)
join(parts, sep) ==
    IF parts = <<>> THEN <<>>
    ELSE IF Len(parts) = 1 THEN parts[1]
    ELSE parts[1] \o sep \o join(Tail(parts), sep)

build_meta_string_WriterFirst(genre, actors, director, writer) ==
    join(push_part(push_part(push_part(push_part(<<>>, writer), genre), actors), director), <<" ">>)

\* search.rs 42-59; a text is a sequence, of characters or of longer pieces
build_meta_string(genre, actors, director, writer) ==
    join(push_part(push_part(push_part(push_part(<<>>, genre), actors), director), writer), <<" ">>)

add_entry_OncePerId(entries, entry) ==
    IF \E i \in 1..Len(entries) : entries[i].id = entry.id THEN entries ELSE Append(entries, entry)

\* search.rs 28-30
add_entry(entries, entry) == Append(entries, entry)

\* Iterator::find
find(s, Test(_)) ==
    LET hits == {i \in 1..Len(s) : Test(s[i])} IN
    IF hits = {} THEN None ELSE Some(s[CHOOSE i \in hits : \A j \in hits : i <= j])

\* main.rs 211-213, 287-289: the page of a movie or of a series
page_name(path) == <<<<"hash", to_str(path)>>, ".html">>

\* main.rs 215-221
MovieIndexInfo(movie_info) ==
    [name |-> movie_info.name, year |-> movie_info.year, director |-> movie_info.director,
     poster_url |-> movie_info.poster_url, page_url |-> page_name(movie_info.path)]

NoPoster == <<"https://", "via.placeholder.com/300x450.png?text=No+Poster">>

\* Option::unwrap_or
unwrap_or(opt, default) == IF opt.some THEN opt.val ELSE default

\* main.rs 286-297
TvSeriesIndexInfo(series) ==
    [name |-> series.name, year |-> series.year, episodes_count |-> Len(series.episodes),
     poster_url |-> unwrap_or(series.poster_url, NoPoster), page_url |-> page_name(series.path)]

\* a String field as a text of one piece, an Option<String> likewise
Text(str) == <<str>>
as_deref(opt) == IF opt.some THEN Some(Text(opt.val)) ELSE None

\* main.rs 380
movie_id(movie) == generate_id(PathBuf_from(movie.name), "movie")

\* main.rs 361-377
movie_meta(movie_metadata, movie) ==
    IF movie_metadata.some
    THEN build_meta_string(Some(Text(movie_metadata.val.genre)), Some(Text(movie_metadata.val.actors)),
                           Some(Text(movie_metadata.val.director)), None)
    ELSE build_meta_string(None, None, Some(Text(movie.director)), None)

\* main.rs 359-388, one iteration
movie_entry(movie, movie_infos) ==
    [id |-> movie_id(movie),
     title |-> <<movie.name, " (", movie.year, ")">>,
     year |-> Some(movie.year),
     media_type |-> "movie",
     url |-> movie.page_url,
     poster_url |-> movie.poster_url,
     meta |-> movie_meta(find(movie_infos, LAMBDA m : m.name = movie.name /\ m.year = movie.year),
                         movie)]

\* main.rs 393-411
series_meta(series_data) ==
    IF ~series_data.some THEN <<>>
    ELSE IF series_data.val[2].some
    THEN build_meta_string(as_deref(series_data.val[1].genre), as_deref(series_data.val[1].actors),
                           Some(Text(series_data.val[2].val.director)), None)
    ELSE build_meta_string(as_deref(series_data.val[1].genre), as_deref(series_data.val[1].actors),
                           None, None)

\* main.rs 391-428, one iteration
series_search_entry(series_index, series_pairs) ==
    [id |-> generate_id(PathBuf_from(series_index.name), "series"),
     title |-> IF series_index.year.some
               THEN <<series_index.name, " (", series_index.year.val, ")">>
               ELSE <<series_index.name>>,
     year |-> series_index.year,
     media_type |-> "series",
     url |-> series_index.page_url,
     poster_url |-> series_index.poster_url,
     meta |-> series_meta(find(series_pairs, LAMBDA p : p[1].name = series_index.name))]

\* main.rs 453-462: the page of the first series of that name, and an anchor
episode_url(page, series, episode) ==
    <<IF page.some THEN page.val.page_url ELSE <<>>, "#", <<"lowercase-dashed", series.name>>,
      "-s", episode.season, "e", episode.episode>>

\* main.rs 432-466, one iteration
episode_entry(series, episode, tv_series_index) ==
    [id |-> generate_id(episode.path, "episode"),
     title |-> <<series.name, " - ", series.name, " S", episode.season, "E", episode.episode>>
               \o (IF episode.title.some THEN <<": ", episode.title.val>> ELSE <<>>),
     year |-> series.year,
     media_type |-> "episode",
     url |-> episode_url(find(tv_series_index, LAMBDA s : s.name = series.name), series, episode),
     poster_url |-> unwrap_or(series.poster_url, NoPoster),
     meta |-> build_meta_string(None, None, as_deref(episode.director), None)]

RECURSIVE add_movies(_, _, _, _)
add_movies(entries, movie_infos, k, all) ==
    IF k > Len(movie_infos) THEN entries
    ELSE add_movies(add_entry(entries, movie_entry(MovieIndexInfo(movie_infos[k]), all)),
                    movie_infos, k + 1, all)

RECURSIVE add_series(_, _, _)
add_series(entries, series_pairs, k) ==
    IF k > Len(series_pairs) THEN entries
    ELSE add_series(add_entry(entries, series_search_entry(TvSeriesIndexInfo(series_pairs[k][1]), series_pairs)),
                    series_pairs, k + 1)

RECURSIVE add_series_episodes(_, _, _, _)
add_series_episodes(entries, series, k, tv_series_index) ==
    IF k > Len(series.episodes) THEN entries
    ELSE add_series_episodes(add_entry(entries, episode_entry(series, series.episodes[k], tv_series_index)),
                             series, k + 1, tv_series_index)

RECURSIVE add_episodes(_, _, _, _)
add_episodes(entries, series_pairs, k, tv_series_index) ==
    IF k > Len(series_pairs) THEN entries
    ELSE add_episodes(add_series_episodes(entries, series_pairs[k][1], 1, tv_series_index),
                      series_pairs, k + 1, tv_series_index)

\* main.rs 355-467: movies, then series, then the episodes of each series
build_search_index(movie_infos, series_pairs) ==
    add_episodes(add_series(add_movies(<<>>, movie_infos, 1, movie_infos), series_pairs, 1),
                 series_pairs, 1, [k \in 1..Len(series_pairs) |-> TvSeriesIndexInfo(series_pairs[k][1])])

\* main.rs 284 and 355-471: unless --noop, the index is built and written
WriteSearchIndex ==
    /\ pc = "done"
    /\ ~noop
    /\ ~search_index.some
    /\ search_index' = Some(build_search_index(all_movie_infos, all_tv_series))
    /\ UNCHANGED <<textVars, cacheVars, lastStore, looked, nops, writers, landed, cache, noop, pc, movie_files, mi,
                   movie_results, media_infos, all_movie_infos, tv_folders, fi, series_list, si, cur,
                   all_tv_series, requests, last>>

Next ==
    \/ ResolveMovie
    \/ CollectMovies
    \/ PublishMovie
    \/ StartTv
    \/ ScanTvFolder
    \/ ResolveSeries
    \/ ResolveEpisode
    \/ PushSeries
    \/ FinishTv
    \/ WriteSearchIndex

Spec == Init /\ [][Next]_vars

----------------------------------------------------------------------------
(* Properties of the run *)

MovieKey(call) == PathHash(call.key.path)

DecodableRows(table, path_hash) ==
    {r \in RowsAt(table, path_hash) : row_get(r.json_data).ok /\ from_str(r.json_data).ok}

\* C1: with a cache present, when the movies table holds a decodable record
\* under the path hash of the file being resolved, no request is sent to the
\* provider for that file, and the lookup, when SQLite executes it, makes the
\* resolver return exactly that record.
C1_CacheHitReturnsRecord ==
    (last.kind = "movie" /\ cache /\ DecodableRows(last.before[1], MovieKey(last)) # {}) =>
        /\ ~last.fetched
        /\ Len(requests) = last.nreq
        /\ ~last.rfail =>
            \E r \in DecodableRows(last.before[1], MovieKey(last)) :
                last.result = Ok(from_str(r.json_data).val)

C1_Witness ==
    /\ last.kind = "movie"
    /\ last.n = 2
    /\ cache
    /\ DecodableRows(last.before[1], MovieKey(last)) # {}
    /\ ~last.rfail
    /\ ~last.fetched
    /\ last.result.ok
    /\ last.result.val.path = last.key.path
    /\ movie_results[1] = last.result

\* C2 as stated: on a miss, a failed resolution leaves every cache table
\* unchanged and after a successful one the cache holds the returned record
\* under the item's key.
C2_SuccessIsCached ==
    (last.kind = "movie" /\ cache /\ last.fetched) =>
        /\ Len(requests) = last.nreq + 1
        /\ IF last.result.ok
           THEN get_movie_by_path_hash(movies, MovieKey(last), FALSE) = Ok(Some(last.result.val))
           ELSE cacheVars = last.before

\* C2 amended: on a miss exactly one request is sent; a failed resolution
\* leaves every cache table unchanged; a successful one whose cache write did
\* not fail leaves under the item's key exactly the row written from the
\* returned record, which a lookup returns when the record's path is valid
\* UTF-8; a successful one whose write failed, or without a cache, leaves the
\* tables unchanged.
C2_WriteOnlyOnSuccess ==
    (last.kind = "movie" /\ last.fetched) =>
        /\ Len(requests) = last.nreq + 1
        /\ ~last.result.ok => cacheVars = last.before
        /\ (last.result.ok /\ cache /\ ~last.wfail) =>
            /\ RowsAt(movies, MovieKey(last))
                 = {MovieRow(last.result.val, MovieKey(last),
                             unwrap_or_default(to_string_movie(last.result.val)))}
            /\ {r \in movies : r.path_hash # MovieKey(last)}
                 = {r \in last.before[1] : r.path_hash # MovieKey(last)}
            /\ <<tv_series, tv_episodes>> = <<last.before[2], last.before[3]>>
            /\ to_str(last.result.val.path).some =>
                get_movie_by_path_hash(movies, MovieKey(last), FALSE) = Ok(Some(last.result.val))
        /\ (last.result.ok /\ (~cache \/ last.wfail)) => cacheVars = last.before

C2_Witness ==
    /\ last.kind = "movie"
    /\ cache
    /\ last.fetched
    /\ last.result.ok
    /\ ~last.wfail
    /\ last.before[1] = LegacyMovies
    /\ get_movie_by_path_hash(movies, MovieKey(last), FALSE) = Ok(Some(last.result.val))
    /\ \E i \in 1..Len(movie_results) : ~movie_results[i].ok

\* C7: whenever the cache lookup for a movie does not produce a record (miss,
\* undecodable payload or failing read), the resolver goes on to ask the
\* provider and no cache error is returned to the caller.
C7_CacheProblemNeverSurfaced ==
    (last.kind = "movie" /\ cache /\ ~(last.lookup.ok /\ last.lookup.val.some)) =>
        /\ last.fetched
        /\ ~last.result.ok => last.result.err # "db"

\* C8: when the provider answer parses as a movie but the cache write fails,
\* the resolver still returns the freshly built record.
C8_WriteFailureIsNotFatal ==
    (last.kind = "movie" /\ last.fetched /\ last.wfail) =>
        last.result = Ok(FetchedMovieInfo(last.http.doc, parse_u16(last.http.doc.Year).val,
                                          Url_parse(last.http.doc.Poster).val, last.key.path))

C8_Witness ==
    /\ last.kind = "movie"
    /\ cache
    /\ last.fetched
    /\ last.wfail
    /\ last.result.ok
    /\ movies = last.before[1]
    /\ media_infos # <<>>
    /\ media_infos[Len(media_infos)] = last.result.val

\* The type tag each resolver asks for
WrongTag(call) ==
    /\ call.kind # "none"
    /\ call.fetched
    /\ call.http.net
    /\ HasTag(call.http.doc)
    /\ call.http.doc.Type # call.kind

\* C9: for movies, series and episodes alike, an answer whose type tag is not
\* the requested one makes the resolver return an error, and nothing from the
\* answer is attached to the item.
C9_WrongTagIsFailure ==
    WrongTag(last) =>
        /\ ~last.result.ok
        /\ last.kind = "series" => ~cur[1].series_info.some
        /\ last.kind = "episode" => ~cur[1].series_data.episodes[cur[1].ei - 1].title.some

\* C3: no series request and no episode request is sent to the provider twice
\* in one run.
C3_AtMostOneFetchPerKey ==
    \A i, j \in 1..Len(requests) :
        (i < j /\ requests[i].type \in {"series", "episode"}) => requests[i] # requests[j]

RECURSIVE OkVals(_)
OkVals(results) ==
    IF results = <<>> THEN <<>>
    ELSE (IF Head(results).ok THEN <<Head(results).val>> ELSE <<>>) \o OkVals(Tail(results))

RECURSIVE ScannedSeries(_)
ScannedSeries(folders) ==
    IF folders = <<>> THEN <<>>
    ELSE (IF Head(folders).ok THEN Head(folders).val ELSE <<>>) \o ScannedSeries(Tail(folders))

\* C10: a failed resolution never stops the run.  Every movie is tried, the
\* failed ones are left out and the others kept in order; at the end every
\* scanned series is in the catalog, with its enrichment unset when its
\* resolution failed, and every episode is kept with its playback reference,
\* enriched or not; the run only ends by finishing or by a panic in rendering a
\* movie whose path is not valid UTF-8.
C10_FailuresDoNotStopRun ==
    /\ all_movie_infos \o media_infos = OkVals(movie_results)
    /\ Len(movie_results) = mi - 1
    /\ pc # "resolve_movies" => Len(movie_results) = Len(movie_files)
    /\ pc \notin {"done", "panicked"} => ENABLED Next
    /\ pc = "panicked" =>
        /\ ~noop
        /\ ~to_str(all_movie_infos[Len(all_movie_infos)].path).some
    /\ pc = "done" =>
        LET scanned == ScannedSeries(tv_folders) IN
        /\ Len(all_tv_series) = Len(scanned)
        /\ \A i \in 1..Len(scanned) :
            LET series == all_tv_series[i][1]
                info == all_tv_series[i][2]
            IN  /\ series.name = scanned[i].name
                /\ series.path = scanned[i].path
                /\ ~info.some => series = [scanned[i] EXCEPT !.episodes = series.episodes]
                /\ Len(series.episodes) = Len(scanned[i].episodes)
                /\ \A j \in 1..Len(series.episodes) :
                    /\ series.episodes[j].path = scanned[i].episodes[j].path
                    /\ series.episodes[j].media_ref
                         = Some(gen_media_ref("tv", scanned[i].episodes[j].path))

C10_Witness ==
    /\ pc = "done"
    /\ Len(movie_results) = 2
    /\ ~movie_results[1].ok
    /\ movie_results[2].ok
    /\ Len(all_movie_infos) = 1
    /\ Len(all_tv_series) = 1
    /\ ~all_tv_series[1][2].some
    /\ ~all_tv_series[1][1].episodes[1].title.some
    /\ all_tv_series[1][1].episodes[2].title.some
    /\ all_tv_series[1][1].episodes[1].media_ref.some

----------------------------------------------------------------------------
(* Regular expressions (the regex crate), as the name parsers use them.     *)
(* A pattern is a sequence of atoms; a match is found as a backtracking     *)
(* matcher finds it: the leftmost start, alternatives in order, greedy      *)
(* repetitions longest first and lazy ones shortest first.  Patterns        *)
(* compiled with (?i) list both cases of every letter.                      *)

Digits == {"0", "1", "2", "3", "4", "5", "6", "7", "8", "9"}
LowerSeq == <<"a", "b", "c", "d", "e", "f", "g", "h", "i", "j", "k", "l", "m", "n", "o", "p", "q", "r", "s", "t", "u", "v", "w", "x", "y", "z">>
UpperSeq == <<"A", "B", "C", "D", "E", "F", "G", "H", "I", "J", "K", "L", "M", "N", "O", "P", "Q", "R", "S", "T", "U", "V", "W", "X", "Y", "Z">>
Lowers == {LowerSeq[i] : i \in 1..26}
Uppers == {UpperSeq[i] : i \in 1..26}
Letters == Lowers \cup Uppers
Alnum == Letters \cup Digits
WordChars == Alnum \cup {"_"}
Space == {" ", "\t", "\n"}
Sep == {".", "_", " "}

to_uppercase_char(c) == IF c \in Lowers THEN UpperSeq[CHOOSE i \in 1..26 : LowerSeq[i] = c] ELSE c
to_lowercase_char(c) == IF c \in Uppers THEN LowerSeq[CHOOSE i \in 1..26 : UpperSeq[i] = c] ELSE c

\* str::to_lowercase
to_lowercase(s) == [i \in 1..Len(s) |-> to_lowercase_char(s[i])]

NoLimit == 1000

Cls(set, neg, min, max, lazy) ==
    [t |-> "cls", set |-> set, neg |-> neg, min |-> min, max |-> max, lazy |-> lazy]
One(set) == Cls(set, FALSE, 1, 1, FALSE)
NotOne(set) == Cls(set, TRUE, 1, 1, FALSE)
Opt(set) == Cls(set, FALSE, 0, 1, FALSE)
Star(set) == Cls(set, FALSE, 0, NoLimit, FALSE)
Plus(set) == Cls(set, FALSE, 1, NoLimit, FALSE)
PlusLazy(set) == Cls(set, FALSE, 1, NoLimit, TRUE)
Times(set, n) == Cls(set, FALSE, n, n, FALSE)
\* . matches every character but the line feed
AnyPlusLazy == Cls({"\n"}, TRUE, 1, NoLimit, TRUE)
AnyStarLazy == Cls({"\n"}, TRUE, 0, NoLimit, TRUE)
AnyStar == Cls({"\n"}, TRUE, 0, NoLimit, FALSE)
Alt(alts) == [t |-> "alt", alts |-> alts]
Open(c) == [t |-> "open", cap |-> c]
Close(c) == [t |-> "close", cap |-> c]
Bol == [t |-> "bol"]
Eol == [t |-> "eol"]
WordB == [t |-> "wb"]
Group(c, re) == <<Open(c)>> \o re \o <<Close(c)>>
\* a literal text
Lit(s) == [i \in 1..Len(s) |-> One({s[i]})]
\* a literal text under (?i)
LitI(s) == [i \in 1..Len(s) |-> One({to_lowercase_char(s[i]), to_uppercase_char(s[i])})]

CapNames == {"name", "season", "episode", "year", "g1"}
NoCaps == [c \in CapNames |-> <<0, 0>>]

InClass(a, c) == (c \in a.set) # a.neg

Min2(a, b) == IF a < b THEN a ELSE b

\* how many characters from position i on the repetition a can take at most
RunLen(a, s, i) ==
    LET lim == Min2(a.max, Len(s) - i + 1)
        bad == {n \in 1..lim : ~InClass(a, s[i + n - 1])}
    IN  IF bad = {} THEN lim ELSE (CHOOSE n \in bad : \A m \in bad : n <= m) - 1

IsWordAt(s, i) == i >= 1 /\ i <= Len(s) /\ s[i] \in WordChars

\* of the attempts <<order, outcome>> that matched, the first (or the last) in order
first_match(tries, lowest) ==
    LET found == {r \in tries : r[2].some} IN
    IF found = {} THEN None
    ELSE IF lowest THEN Some(CHOOSE r \in found : \A q \in found : r[1] <= q[1])
         ELSE Some(CHOOSE r \in found : \A q \in found : r[1] >= q[1])

\* the outcome of the chosen attempt
outcome(t) == IF t.some THEN t.val[2] ELSE None

\* the match of pattern re against s from position i on, in backtracking order
RECURSIVE Run(_, _, _, _)
Run(re, s, i, caps) ==
    IF re = <<>> THEN Some([end |-> i, caps |-> caps])
    ELSE LET a == Head(re)
             rest == Tail(re)
         IN  CASE a.t = "cls" ->
                    outcome(first_match({<<n, Run(rest, s, i + n, caps)>> :
                                             n \in a.min..RunLen(a, s, i)}, a.lazy))
               [] a.t = "alt" ->
                    outcome(first_match({<<k, Run(a.alts[k] \o rest, s, i, caps)>> :
                                             k \in 1..Len(a.alts)}, TRUE))
               [] a.t = "bol" -> IF i = 1 THEN Run(rest, s, i, caps) ELSE None
               [] a.t = "eol" -> IF i = Len(s) + 1 THEN Run(rest, s, i, caps) ELSE None
               [] a.t = "wb" ->
                    IF IsWordAt(s, i - 1) # IsWordAt(s, i) THEN Run(rest, s, i, caps) ELSE None
               [] a.t = "open" -> Run(rest, s, i, [caps EXCEPT ![a.cap] = <<i, 0>>])
               [] a.t = "close" -> Run(rest, s, i, [caps EXCEPT ![a.cap] = <<caps[a.cap][1], i>>])

\* the match found at the leftmost position it was found at
leftmost(t) ==
    IF t.some THEN Some([start |-> t.val[1], end |-> t.val[2].val.end, caps |-> t.val[2].val.caps])
    ELSE None

\* Regex::captures: the leftmost match anywhere in s
captures(re, s) ==
    leftmost(first_match({<<p, Run(re, s, p, NoCaps)>> : p \in 1..(Len(s) + 1)}, TRUE))

\* Captures::name(c): the group's text when the group took part in the match
cap_name(s, m, c) ==
    IF m.caps[c][1] = 0 THEN None ELSE Some(SubSeq(s, m.caps[c][1], m.caps[c][2] - 1))

\* str::replace(".", " ")
replace_dots(s) == [i \in 1..Len(s) |-> IF s[i] = "." THEN " " ELSE s[i]]

\* str::trim
trim(s) ==
    LET keep == {i \in 1..Len(s) : s[i] \notin Space} IN
    IF keep = {} THEN <<>>
    ELSE SubSeq(s, CHOOSE i \in keep : \A j \in keep : i <= j,
                   CHOOSE i \in keep : \A j \in keep : i >= j)

contains(s, c) == \E i \in 1..Len(s) : s[i] = c

U8Max == 255

\* str::parse::<u8>
parse_u8(s) ==
    LET body == IF s # <<>> /\ s[1] = "+" THEN Tail(s) ELSE s IN
    IF body = <<>> THEN Err("empty")
    ELSE IF \E i \in 1..Len(body) : ~IsDigit(body[i]) THEN Err("invalid digit")
    ELSE IF DecimalValue(body) > U8Max THEN Err("number too large")
    ELSE Ok(DecimalValue(body))

\* Result::ok
result_ok(r) == IF r.ok THEN Some(r.val) ELSE None

\* Path::file_stem and Path::extension of a file name
LastDot(n) ==
    LET ds == {i \in 2..Len(n) : n[i] = "."} IN
    IF ds = {} THEN 0 ELSE CHOOSE i \in ds : \A j \in ds : i >= j
file_stem(n) == IF n = <<>> THEN None
                ELSE IF LastDot(n) = 0 THEN Some(n) ELSE Some(SubSeq(n, 1, LastDot(n) - 1))
extension(n) == IF n = <<>> \/ LastDot(n) = 0 THEN None
                ELSE Some(SubSeq(n, LastDot(n) + 1, Len(n)))

----------------------------------------------------------------------------
(* Movie file names (movie.rs) *)

YearGroup == Group("year", <<Alt(<<Lit(<<"1", "9">>), Lit(<<"2", "0">>)>>), Times(Digits, 2)>>)
BracketPrefix ==
    <<One({"["}), One(WordChars \cup Space), One({"]"}), Plus(Space), One({"-"}), Plus(Space)>>

MOVIE_PATTERNS_RE == <<
    Group("name", <<Plus(Alnum \cup {"'", "."})>>) \o <<One({"."})>> \o YearGroup
        \o <<One({"."}), AnyStar>>,
    Group("name", <<Plus(Alnum \cup {"'", " "})>>) \o <<One({" "}), One({"[", "(", ")"})>>
        \o YearGroup \o <<One({"]", ")"}), AnyStar>>,
    BracketPrefix \o <<Alt(<< <<One({"("}), Plus(WordChars), One({")"}), One({"."})>>, <<>> >>)>>
        \o Group("name", <<Plus(Alnum \cup {".", "'"})>>) \o <<One({"."})>> \o YearGroup
        \o <<One({"."}), AnyStar>>,
    BracketPrefix \o <<Alt(<< <<One({"("}), Plus(WordChars), One({")"}), One({" "})>>, <<>> >>)>>
        \o Group("name", <<Plus(Alnum \cup {"'", " "})>>) \o <<One({" "}), One({"[", "("})>>
        \o YearGroup \o <<One({"]", ")"}), AnyStar>>,
    Group("name", <<Plus(Alnum \cup {"'", " "})>>) \o <<One({" "})>> \o YearGroup \o <<AnyStar>>
>>

\* the position of the chosen pattern with its captures
nth_captures(t) == IF t.some THEN Some([k |-> t.val[1], m |-> t.val[2].val]) ELSE None

\* the captures of the last pattern of the list that matches
last_captures(regexs, s) ==
    nth_captures(first_match({<<k, captures(regexs[k], s)>> : k \in 1..Len(regexs)}, FALSE))

\* regexs.iter().find_map(|re| re.captures(s)): the captures of the first
\* pattern of the list that matches, with the pattern's position
find_map_captures(regexs, s) ==
    nth_captures(first_match({<<k, captures(regexs[k], s)>> : k \in 1..Len(regexs)}, TRUE))

\* the name rule of parse_movie_filename
movie_name_rule(n) == IF ~contains(n, " ") /\ contains(n, ".") THEN replace_dots(n) ELSE n

file_name(path) == IF path = <<>> THEN <<>> ELSE path[Len(path)]

MediaInfo(name, year, path) == [name |-> name, year |-> year, path |-> path]

\* the closure body of parse_movie_filename: the fields of the match
movie_fields(s, filename_match, path) ==
    IF ~filename_match.some THEN None
    ELSE LET n == cap_name(s, filename_match.val.m, "name")
             y == cap_name(s, filename_match.val.m, "year")
         IN  IF ~n.some THEN None
             ELSE Some(MediaInfo(movie_name_rule(n.val),
                                 IF y.some THEN result_ok(parse_u16(y.val)) ELSE None,
                                 path))

\* parse_movie_filename(regexs, path); a path is the sequence of its components
parse_movie_filename(regexs, path) ==
    LET stem == file_stem(file_name(path)) IN
    IF ~stem.some THEN None
    ELSE movie_fields(stem.val, find_map_captures(regexs, stem.val), path)

----------------------------------------------------------------------------
(* TV episode file names and series folder names (tv.rs) *)

D12(c) == Group(c, <<Cls(Digits, FALSE, 1, 2, FALSE)>>)
NameLazy == Group("name", <<AnyPlusLazy>>)
SxxExx == LitI(<<"S">>) \o D12("season") \o LitI(<<"E">>) \o D12("episode")
NNxNN == D12("season") \o LitI(<<"x">>) \o D12("episode")
Exx == LitI(<<"E">>) \o D12("episode")
EpisodeXx == LitI(<<"E", "p", "i", "s", "o", "d", "e">>) \o <<One(Sep)>> \o D12("episode")
\* (?:^|[^a-zA-Z0-9\p{L}])
AtStart == <<Alt(<< <<Bol>>, <<NotOne(Alnum)>> >>)>>

TV_PATTERNS_RE == <<
    NameLazy \o <<One(Sep)>> \o SxxExx,
    NameLazy \o <<One(Sep)>> \o NNxNN,
    AtStart \o SxxExx,
    AtStart \o NNxNN,
    NameLazy \o <<One(Sep)>> \o Exx,
    NameLazy \o <<One(Sep)>> \o EpisodeXx,
    AtStart \o Exx,
    AtStart \o EpisodeXx,
    Group("name", <<PlusLazy(Letters \cup {" ", ".", "_", "-"})>>)
        \o Group("season", <<Times(Digits, 2)>>) \o Group("episode", <<Times(Digits, 2)>>)
        \o <<Cls(Digits \cup Letters \cup {"/"}, TRUE, 0, NoLimit, FALSE), Eol>>
>>

SEASON_FOLDER_PATTERNS_RE == <<
    <<Bol>> \o LitI(<<"S">>) \o <<Alt(<<LitI(<<"e", "a", "s", "o", "n">>), <<>> >>), Opt(Sep)>> \o D12("season") \o <<Eol>>,
    NameLazy \o <<One(Sep)>> \o LitI(<<"S">>) \o <<Alt(<<LitI(<<"e", "a", "s", "o", "n">>), <<>> >>), Opt(Sep)>>
        \o D12("season")
>>

\* Option::or
or(a, b) == IF a.some THEN a ELSE b

\* the name rule of parse_tv_episode_path
tv_name_rule(n) == trim(replace_dots(n))

\* the folder's season wherever the folder gives one
final_season_FolderFirst(season_match, season_from_folder) == or(season_from_folder, season_match)

\* season_match.or(season_from_folder)
final_season(season_match, season_from_folder) == or(season_match, season_from_folder)

\* the body of the loop of parse_tv_episode_path once a pattern has matched
tv_fields(s, m, file_path, series_name_from_folder, season_from_folder) ==
    LET nm == cap_name(s, m, "name")
        sm == cap_name(s, m, "season")
        em == cap_name(s, m, "episode")
        name_match == IF nm.some THEN Some(tv_name_rule(nm.val)) ELSE None
        season_match == IF sm.some THEN result_ok(parse_u8(sm.val)) ELSE None
        episode_match == IF em.some THEN result_ok(parse_u8(em.val)) ELSE None
        series_name == or(name_match, series_name_from_folder)
        season == final_season(season_match, season_from_folder)
    IN  IF ~series_name.some \/ ~season.some \/ ~episode_match.some THEN None
        ELSE Some(TvEpisodeMediaInfo(series_name.val, season.val, episode_match.val, file_path))

RECURSIVE tv_pattern_loop_FallThrough(_, _, _, _, _)
\* a step that goes on to the next pattern when the fields r give no identity
tv_pattern_step_FallThrough(k, r, s, file_path, series_name_from_folder, season_from_folder) ==
    IF r.some THEN r
    ELSE tv_pattern_loop_FallThrough(k + 1, s, file_path, series_name_from_folder,
                                     season_from_folder)

\* the fields of the captures c, if any
tv_fields_if(c, s, file_path, series_name_from_folder, season_from_folder) ==
    IF c.some THEN tv_fields(s, c.val, file_path, series_name_from_folder, season_from_folder)
    ELSE None

\* a loop that goes on to the next pattern when the matched one gives no identity
tv_pattern_loop_FallThrough(k, s, file_path, series_name_from_folder, season_from_folder) ==
    IF k > Len(TV_PATTERNS_RE) THEN None
    ELSE tv_pattern_step_FallThrough(
             k, tv_fields_if(captures(TV_PATTERNS_RE[k], s), s, file_path,
                             series_name_from_folder, season_from_folder),
             s, file_path, series_name_from_folder, season_from_folder)

RECURSIVE tv_pattern_loop(_, _, _, _, _)
\* the body of the loop for pattern k, whose captures on s are c
tv_pattern_step(k, c, s, file_path, series_name_from_folder, season_from_folder) ==
    IF c.some
    THEN tv_fields(s, c.val, file_path, series_name_from_folder, season_from_folder)
    ELSE tv_pattern_loop(k + 1, s, file_path, series_name_from_folder, season_from_folder)

\* for re in TV_PATTERNS_RE.iter(), from the k-th pattern on
tv_pattern_loop(k, s, file_path, series_name_from_folder, season_from_folder) ==
    IF k > Len(TV_PATTERNS_RE) THEN None
    ELSE tv_pattern_step(k, captures(TV_PATTERNS_RE[k], s), s, file_path,
                         series_name_from_folder, season_from_folder)

parse_tv_episode_path(file_path, series_name_from_folder, season_from_folder) ==
    LET stem == file_stem(file_name(file_path)) IN
    IF ~stem.some THEN None
    ELSE tv_pattern_loop(1, stem.val, file_path, series_name_from_folder, season_from_folder)

YearMin == 1900
YearMax == 2050

\* a four-digit token taken as a year whatever its value
PlausibleYearAny(y) == y >= 0

\* y >= 1900 && y < 2050
PlausibleYear(y) == y >= YearMin /\ y < YearMax

year_finder_re ==
    <<Alt(<< <<One({"("})>>, <<One({"["})>>, <<WordB>> >>)>> \o Group("g1", <<Times(Digits, 4)>>)
        \o <<Alt(<< <<One({")"})>>, <<One({"]"})>>, <<WordB>> >>)>>

name_cleaner_re ==
    <<Bol>> \o Group("g1", <<AnyStarLazy>>)
        \o <<Alt(<< <<Star(Sep), Opt({"(", "["}), Times(Digits, 4), Opt({")", "]"})>>, <<>> >>),
             Star(Sep), Eol>>

\* if y >= 1900 && y < 2050 { parsed_year = Some(y) }, y the parse of the token
plausible_year(y) == IF y.ok /\ PlausibleYear(y.val) THEN Some(y.val) ELSE None

\* the year the captures caps of the year finder on text give
year_of(text, caps) ==
    IF ~caps.some THEN None
    ELSE plausible_year(parse_u16(cap_name(text, caps.val, "g1").val))

\* the year the year finder gives for a text: its first four-digit token, if plausible
find_year(text) == year_of(text, captures(year_finder_re, text))

non_empty(s) == IF s = <<>> THEN None ELSE Some(s)

starts_with(s, p) == Len(p) <= Len(s) /\ SubSeq(s, 1, Len(p)) = p

\* series_name_str: the "name" group, or the part of folder_name before the match
series_name_of(folder_name, caps) ==
    LET nm == cap_name(folder_name, caps, "name") IN
    IF nm.some THEN trim(replace_dots(nm.val))
    ELSE trim(replace_dots(SubSeq(folder_name, 1, caps.start - 1)))

\* the two returns of the season loop, parsed_year being final
season_folder_return(folder_name, caps, series_name_str, season_val, parsed_year) ==
    IF series_name_str = <<>>
       /\ starts_with(folder_name, SubSeq(folder_name, caps.start, caps.end - 1))
    THEN <<None, Some(season_val), parsed_year>>
    ELSE <<non_empty(series_name_str), Some(season_val), parsed_year>>

\* if parsed_year.is_none(), the year of the derived series name
year_or_find(year0, series_name_str) ==
    IF year0.some THEN year0 ELSE find_year(series_name_str)

\* the body of the season loop of parse_series_folder_name when pattern k
\* matched and its season parsed
season_folder_fields(folder_name, caps, series_name_str, season_val, year0) ==
    season_folder_return(folder_name, caps, series_name_str, season_val,
                         year_or_find(year0, series_name_str))

RECURSIVE season_pattern_loop(_, _, _)
\* the body of the season loop for pattern k, whose captures on folder_name are caps
season_pattern_step(k, caps, folder_name, year0) ==
    LET sm == IF caps.some THEN cap_name(folder_name, caps.val, "season") ELSE None
        season_from_pattern == IF sm.some THEN result_ok(parse_u8(sm.val)) ELSE None
    IN  IF season_from_pattern.some
        THEN Some(season_folder_fields(folder_name, caps.val,
                                       series_name_of(folder_name, caps.val),
                                       season_from_pattern.val, year0))
        ELSE season_pattern_loop(k + 1, folder_name, year0)

\* for re in SEASON_FOLDER_PATTERNS_RE.iter(), from the k-th pattern on
season_pattern_loop(k, folder_name, year0) ==
    IF k > Len(SEASON_FOLDER_PATTERNS_RE) THEN None
    ELSE season_pattern_step(k, captures(SEASON_FOLDER_PATTERNS_RE[k], folder_name),
                             folder_name, year0)

\* clean_caps.get(1).map_or_else(|| name_candidate.clone(), |m| m.as_str().trim())
cleaned_name(name_candidate, clean_caps) ==
    IF ~clean_caps.some THEN name_candidate
    ELSE LET g == cap_name(name_candidate, clean_caps.val, "g1") IN
         IF g.some THEN trim(g.val) ELSE name_candidate

final_name_str(name_candidate, parsed_year) ==
    IF parsed_year.some
    THEN cleaned_name(name_candidate, captures(name_cleaner_re, name_candidate))
    ELSE name_candidate

\* the return of parse_series_folder_name, with_season being what the season loop returned
series_folder_return(with_season, name_candidate, parsed_year) ==
    IF with_season.some THEN with_season.val
    ELSE <<non_empty(final_name_str(name_candidate, parsed_year)), None, parsed_year>>

\* parse_series_folder_name after the first year search
series_folder_fields(folder_name, parsed_year) ==
    series_folder_return(season_pattern_loop(1, folder_name, parsed_year),
                         trim(replace_dots(folder_name)), parsed_year)

\* parse_series_folder_name(folder_path): <<name, season, year>>
parse_series_folder_name(folder_path) ==
    series_folder_fields(file_name(folder_path), find_year(file_name(folder_path)))

VideoExtensions == {<<"m", "k", "v">>, <<"m", "p", "4">>, <<"a", "v", "i">>, <<"m", "o", "v">>, <<"w", "m", "v">>, <<"f", "l", "v">>, <<"w", "e", "b", "m">>}

\* every file counts as a video file
is_video_file_AnyFile(path) == TRUE

is_video_file(path) ==
    LET ext == extension(file_name(path)) IN
    ext.some /\ to_lowercase(ext.val) \in VideoExtensions

----------------------------------------------------------------------------
(* The TV library walker (tv.rs).  A directory listing is the sequence of    *)
(* entries in the order read_dir returns them; an entry is a file or a       *)
(* directory with its own listing.  A path is the sequence of its components *)
(* below the TV folder.                                                      *)

File(name) == [name |-> name, dir |-> FALSE, entries |-> <<>>, fails |-> FALSE]
Dir(name, entries) == [name |-> name, dir |-> TRUE, entries |-> entries, fails |-> FALSE]
\* a directory that fs::read_dir fails on
Unreadable(name) == [name |-> name, dir |-> TRUE, entries |-> <<>>, fails |-> TRUE]

\* byte order of the characters the sample names use
AsciiOrder == <<" ", "'", "(", ")", "-", ".", "0", "1", "2", "3", "4", "5", "6", "7", "8", "9", "A", "B", "C", "D", "E", "F", "G", "H", "I", "J", "K", "L", "M", "N", "O", "P", "Q", "R", "S", "T", "U", "V", "W", "X", "Y", "Z", "[", "]", "_", "a", "b", "c", "d", "e", "f", "g", "h", "i", "j", "k", "l", "m", "n", "o", "p", "q", "r", "s", "t", "u", "v", "w", "x", "y", "z">>
Code(c) == CHOOSE i \in 1..Len(AsciiOrder) : AsciiOrder[i] = c

\* String::cmp is Less
StrLess(a, b) ==
    \E i \in 1..(Len(a) + 1) :
        /\ i <= Len(b)
        /\ \A j \in 1..(i - 1) : a[j] = b[j]
        /\ (i = Len(a) + 1 \/ Code(a[i]) < Code(b[i]))

\* a stable sort: by key, equal keys in their order in seq
stable_sort(seq, less(_, _)) ==
    LET n == Len(seq)
        before(j, i) == less(seq[j], seq[i]) \/ (~less(seq[i], seq[j]) /\ j < i)
        at(k) == CHOOSE i \in 1..n : Cardinality({j \in 1..n : before(j, i)}) = k - 1
    IN  [k \in 1..n |-> seq[at(k)]]

EpisodeKeyLess(a, b) == a.season < b.season \/ (a.season = b.season /\ a.episode < b.episode)
SeriesNameLess(a, b) == StrLess(a.name, b.name)

\* the episodes left in the order they were collected in
sort_episodes_Unsorted(episodes) == episodes

\* current_series_episodes.sort_by_key(|ep| (ep.season, ep.episode))
sort_episodes(episodes) == stable_sort(episodes, EpisodeKeyLess)

\* all_series_info.sort_by(|a, b| a.name.cmp(&b.name))
sort_series(all_series_info) == stable_sort(all_series_info, SeriesNameLess)

\* episodes_list.push(episode_info) for a video file that parses
push_episode(episodes_list, is_video, episode_info) ==
    IF is_video /\ episode_info.some THEN Append(episodes_list, episode_info.val)
    ELSE episodes_list

RECURSIVE collect_entries(_, _, _, _, _)

\* an entry that is a directory is entered and its files collected as well
collect_entry_Descending(folder_path, e, series_name, season_from_folder, episodes_list) ==
    IF e.dir
    THEN collect_entries(Append(folder_path, e.name), e.entries, series_name, season_from_folder,
                         episodes_list)
    ELSE push_episode(episodes_list, is_video_file(Append(folder_path, e.name)),
                      parse_tv_episode_path(Append(folder_path, e.name), Some(series_name),
                                            season_from_folder))

\* one file of a folder classified without the folder's season
collect_entry_NoSeasonContext(folder_path, e, series_name, season_from_folder, episodes_list) ==
    push_episode(episodes_list, ~e.dir /\ is_video_file(Append(folder_path, e.name)),
                 parse_tv_episode_path(Append(folder_path, e.name), Some(series_name), None))

\* the body of the loop of collect_episodes_from_folder
collect_entry(folder_path, e, series_name, season_from_folder, episodes_list) ==
    push_episode(episodes_list, ~e.dir /\ is_video_file(Append(folder_path, e.name)),
                 parse_tv_episode_path(Append(folder_path, e.name), Some(series_name),
                                       season_from_folder))

\* for file_entry in fs::read_dir(folder_path)?: episodes_list after the entries
collect_entries(folder_path, entries, series_name, season_from_folder, episodes_list) ==
    IF entries = <<>> THEN episodes_list
    ELSE collect_entries(folder_path, Tail(entries), series_name, season_from_folder,
            collect_entry(folder_path, Head(entries), series_name, season_from_folder,
                          episodes_list))

\* an unreadable folder adds nothing and is no error
collect_episodes_from_folder_SkipUnreadable(folder_path, folder, series_name, season_from_folder, episodes_list) ==
    Ok(collect_entries(folder_path, folder.entries, series_name, season_from_folder,
                       episodes_list))

\* collect_episodes_from_folder; folder is the directory at folder_path. The
\* result is Ok(episodes_list after the call) or the error of read_dir.
collect_episodes_from_folder(folder_path, folder, series_name, season_from_folder, episodes_list) ==
    IF folder.fails THEN Err("io")
    ELSE Ok(collect_entries(folder_path, folder.entries, series_name, season_from_folder,
                            episodes_list))

\* the season context a sub-folder of a series folder gives its files:
\* Some(season_num) for a season folder, None for any other folder
sub_dir_season(season_from_sub_dir) ==
    IF season_from_sub_dir.some THEN Some(season_from_sub_dir.val) ELSE None

\* the body of the loop over the items of a series folder that declares no
\* season: Ok(current_series_episodes after the item) or the error of read_dir
series_folder_item(item_path, item, current_series_name_str, current_series_episodes) ==
    IF item.dir
    THEN collect_episodes_from_folder(item_path, item, current_series_name_str,
                                      sub_dir_season(parse_series_folder_name(item_path)[2]),
                                      current_series_episodes)
    ELSE Ok(push_episode(current_series_episodes, is_video_file(item_path),
                         parse_tv_episode_path(item_path, Some(current_series_name_str), None)))

\* the loop over the items of a series folder that declares no season; res is
\* Ok(current_series_episodes) so far, or the error that ended the walk
RECURSIVE series_folder_items(_, _, _, _)
series_folder_items(series_folder_path, items, current_series_name_str, res) ==
    IF items = <<>> \/ ~res.ok THEN res
    ELSE series_folder_items(series_folder_path, Tail(items), current_series_name_str,
            series_folder_item(Append(series_folder_path, Head(items).name), Head(items),
                               current_series_name_str, res.val))

\* every series folder with a name is kept
keep_series_Always(current_series_episodes) == TRUE

\* !current_series_episodes.is_empty()
keep_series(current_series_episodes) == current_series_episodes # <<>>

\* all_series_info.push(TvSeriesMediaInfo { .. }) if episodes were found; res is
\* what collecting the folder's episodes gave
push_series(all_series_info, name, year, series_folder_path, res) ==
    IF ~res.ok THEN res
    ELSE IF keep_series(res.val)
    THEN Ok(Append(all_series_info,
                   TvSeriesMediaInfo(name, year, series_folder_path, sort_episodes(res.val))))
    ELSE Ok(all_series_info)

\* the episodes of a series folder whose name parsed as p: its own files when
\* it declares a season, its items otherwise
series_episodes(series_folder_path, folder, p) ==
    IF p[2].some
    THEN collect_episodes_from_folder(series_folder_path, folder, p[1].val, Some(p[2].val), <<>>)
    ELSE IF folder.fails THEN Err("io")
    ELSE series_folder_items(series_folder_path, folder.entries, p[1].val, Ok(<<>>))

\* the outer loop's body once the folder name is parsed as p
scan_series_folder(series_folder_path, folder, p, all_series_info) ==
    IF ~p[1].some THEN Ok(all_series_info)
    ELSE push_series(all_series_info, p[1].val, p[3], series_folder_path,
                     series_episodes(series_folder_path, folder, p))

\* the body of the outer loop of scan_tv_directory: all_series_info after one entry
scan_series_entry(tv_base_path, series_entry, all_series_info) ==
    IF ~series_entry.dir THEN Ok(all_series_info)
    ELSE scan_series_folder(Append(tv_base_path, series_entry.name), series_entry,
                            parse_series_folder_name(Append(tv_base_path, series_entry.name)),
                            all_series_info)

\* for series_entry in fs::read_dir(tv_base_path)?; res is Ok(all_series_info)
\* so far, or the error that ended the walk
RECURSIVE scan_entries(_, _, _)
scan_entries(tv_base_path, entries, res) ==
    IF entries = <<>> \/ ~res.ok THEN res
    ELSE scan_entries(tv_base_path, Tail(entries),
                      scan_series_entry(tv_base_path, Head(entries), res.val))

\* all_series_info.sort_by(..); Ok(all_series_info)
sorted_series(res) == IF res.ok THEN Ok(sort_series(res.val)) ELSE res

\* scan_tv_directory(tv_base_path); listing is what read_dir returns below it,
\* ioerr whether read_dir fails on tv_base_path itself
scan_tv_directory(tv_base_path, listing, ioerr) ==
    IF ioerr THEN Err("io")
    ELSE sorted_series(scan_entries(tv_base_path, listing, Ok(<<>>)))

----------------------------------------------------------------------------
(* SpecParse: the three name parsers applied to sample names *)

TvFileNames == {
    <<"L", "o", "s", "t", ".", "S", "0", "1", "E", "0", "1", ".", "m", "k", "v">>, <<"L", "o", "s", "t", ".", "1", "x", "0", "2", ".", "a", "v", "i">>, <<"S", "0", "1", "E", "0", "1", ".", "T", "h", "e", ".", "F", "i", "r", "s", "t", ".", "m", "k", "v">>, <<"1", "x", "0", "1", ".", "m", "k", "v">>,
    <<"S", "o", "m", "e", ".", "S", "h", "o", "w", ".", "E", "0", "3", ".", "m", "k", "v">>, <<"S", "h", "o", "w", ".", "E", "p", "i", "s", "o", "d", "e", ".", "0", "5", ".", "m", "k", "v">>, <<"E", "0", "3", ".", "m", "k", "v">>, <<"E", "p", "i", "s", "o", "d", "e", " ", "4", ".", "m", "k", "v">>,
    <<"t", "l", "o", "o", "p", "0", "1", "0", "8", ".", "m", "p", "4">>, <<"S", "3", "E", "0", "1", ".", "O", "n", "l", "y", "E", "p", ".", "m", "k", "v">>, <<"M", "r", ".", " ", "R", "o", "b", "o", "t", " ", "S", "0", "1", "E", "0", "1", ".", "m", "k", "v">>, <<"E", "x", "t", "r", "a", "s", ".", "m", "k", "v">>,
    <<"S", "h", "o", "w", ".", "E", "0", "1", "0", "2", ".", "m", "k", "v">>, <<"L", "o", "s", "t", ".", "S", "2", "E", "5", ".", "E", "0", "7", ".", "m", "k", "v">> }
FolderNameContexts == {None, Some(<<"L", "o", "s", "t">>), Some(<<"S", "h", "o", "w", " ", "A">>)}
SeasonContexts == {None, Some(1), Some(2)}

MovieFileNames == {
    <<"M", "o", "v", "i", "e", ".", "4", "3", ".", "2", "0", "1", "3", ".", "1", "0", "8", "0", "p", ".", "m", "p", "4">>, <<"T", "h", "e", " ", "K", "i", "c", "k", " ", "[", "2", "0", "1", "1", "]", ".", "x", "2", "6", "4", ".", "m", "p", "4">>, <<"T", "r", "o", "p", "i", "c", " ", "T", "h", "u", "n", "d", "e", "r", " ", "2", "0", "0", "8", " ", "U", "n", "r", "a", "t", "e", "d", ".", "m", "p", "4">>,
    <<"A", "l", "i", "e", "n", " ", "1", "9", "7", "9", " ", "(", "1", "9", "8", "6", ")", ".", "m", "k", "v">>, <<"[", "A", "]", " ", "-", " ", "H", "e", "a", "t", ".", "1", "9", "9", "5", ".", "x", ".", "m", "p", "4">>, <<"[", "A", "]", " ", "-", " ", "H", "e", "a", "t", " ", "(", "1", "9", "9", "5", ")", ".", "m", "p", "4">>,
    <<"M", "r", ".", " ", "F", "o", "x", " ", "(", "2", "0", "0", "9", ")", ".", "m", "k", "v">>, <<"S", "a", "m", "p", "l", "e", ".", "m", "k", "v">>, <<"B", "l", "a", "d", "e", ".", "R", "u", "n", "n", "e", "r", ".", "2", "0", "4", "9", ".", "2", "0", "1", "7", ".", "x", ".", "m", "k", "v">>, <<"U", "p", " ", "1", "8", "9", "9", ".", "m", "k", "v">>,
    <<"B", "r", "a", "z", "i", "l", ".", "1", "9", "8", "5", ".", "m", "k", "v">> }

FolderNames == {
    <<"S", "h", "o", "w", " ", "A", " ", "S", "e", "a", "s", "o", "n", " ", "1">>, <<"S", "h", "o", "w", " ", "A", " ", "S", "0", "1">>, <<"S", "h", "o", "w", " ", "A", " ", "(", "2", "0", "2", "3", ")", " ", "S", "e", "a", "s", "o", "n", " ", "1">>, <<"S", "h", "o", "w", ".", "A", ".", "2", "0", "2", "3", ".", "S", "0", "1">>,
    <<"S", "h", "o", "w", " ", "A">>, <<"S", "h", "o", "w", " ", "A", " ", "(", "2", "0", "2", "0", ")">>, <<"S", "e", "a", "s", "o", "n", " ", "0", "1">>, <<"S", "0", "2">>, <<"E", "x", "t", "r", "a", "s">>, <<"S", "h", "o", "w", " ", "(", "1", "8", "9", "9", ")">>,
    <<"S", "h", "o", "w", " ", "2", "0", "5", "0">>, <<"S", "h", "o", "w", ".", "2", "0", "7", "7", ".", "S", "0", "1">>, <<"S", "h", "o", "w", " ", "(", "2", "0", "4", "9", ")">>, <<"S", "h", "o", "w", " ", "1", "9", "0", "0">>, <<"S", "h", "o", "w", " ", "1", "8", "9", "9", " ", "(", "2", "0", "2", "0", ")">>,
    <<"2", "0", "2", "0", " ", "S", "h", "o", "w">>, <<"1", "9", "9", "0", " ", "H", "i", "l", "l", "s", " ", "9", "0", "2", "1", "0">> }

InitParse ==
    /\ movies = {}
    /\ tv_series = {}
    /\ tv_episodes = {}
    /\ lastStore = NeverStored
    /\ looked = NoLookup
    /\ nops = 0
    /\ writers = WritersIdle
    /\ landed = <<>>
    /\ RunIdle
    /\ TextIdle

CallParseTvEpisodePath ==
    \E f \in TvFileNames, n \in FolderNameContexts, se \in SeasonContexts :
        /\ parsed' = [fn |-> "tv", path |-> <<f>>, series_name_from_folder |-> n,
                      season_from_folder |-> se,
                      result |-> parse_tv_episode_path(<<f>>, n, se)]
        /\ UNCHANGED <<cacheVars, lastStore, looked, nops, writers, landed, runVars, tree, scans,
                       nscans>>

CallParseMovieFilename ==
    \E f \in MovieFileNames :
        /\ parsed' = [fn |-> "movie", path |-> <<f>>,
                      result |-> parse_movie_filename(MOVIE_PATTERNS_RE, <<f>>)]
        /\ UNCHANGED <<cacheVars, lastStore, looked, nops, writers, landed, runVars, tree, scans,
                       nscans>>

CallParseSeriesFolderName ==
    \E f \in FolderNames :
        /\ parsed' = [fn |-> "folder", path |-> <<f>>, result |-> parse_series_folder_name(<<f>>)]
        /\ UNCHANGED <<cacheVars, lastStore, looked, nops, writers, landed, runVars, tree, scans,
                       nscans>>

\* the values of one field of a catalog entry's metadata: absent, empty, a text
MetaField(text) == {None, Some(<<>>), Some(text)}

CallBuildMetaString ==
    \E genre \in MetaField(<<"D", "r", "a", "m", "a">>), actors \in MetaField(<<"A", "l", " ", "B", "o">>),
       director \in MetaField(<<"N", "/", "A">>), writer \in MetaField(<<"D", "i", " ", "E", "m">>) :
        /\ parsed' = [fn |-> "meta", args |-> <<genre, actors, director, writer>>,
                      result |-> build_meta_string(genre, actors, director, writer)]
        /\ UNCHANGED <<cacheVars, lastStore, looked, nops, writers, landed, runVars, tree, scans,
                       nscans>>

NextParse ==
    \/ CallParseTvEpisodePath
    \/ CallParseMovieFilename
    \/ CallParseSeriesFolderName
    \/ CallBuildMetaString

SpecParse == InitParse /\ [][NextParse]_vars

----------------------------------------------------------------------------
(* Properties of the parsers *)

\* the patterns of a list that match a text, by position
Matching(regexs, s) == {k \in 1..Len(regexs) : captures(regexs[k], s).some}
FirstMatching(regexs, s) == CHOOSE k \in Matching(regexs, s) : \A j \in Matching(regexs, s) : k <= j
ParsedStem == file_stem(file_name(parsed.path)).val
\* a text without its dots and spaces
Squash(s) == SelectSeq(s, LAMBDA c : c \notin Space \cup {"."})

\* C16: in parse_tv_episode_path the season is the one the matching pattern
\* captured when it captured one, even if the folder says otherwise, else the
\* folder's; the series name is the captured name when there is one, else the
\* folder's; the episode is the captured one; and there is no identity when
\* no pattern matches or neither source gives a season.
C16_FilenameCaptureFirst ==
    parsed.fn = "tv" =>
        IF Matching(TV_PATTERNS_RE, ParsedStem) = {} THEN parsed.result = None
        ELSE LET m == captures(TV_PATTERNS_RE[FirstMatching(TV_PATTERNS_RE, ParsedStem)],
                               ParsedStem).val
                 nm == cap_name(ParsedStem, m, "name")
                 sm == cap_name(ParsedStem, m, "season")
                 em == cap_name(ParsedStem, m, "episode")
             IN  /\ (~sm.some /\ ~parsed.season_from_folder.some) => parsed.result = None
                 /\ ~em.some => parsed.result = None
                 /\ ((sm.some \/ parsed.season_from_folder.some) /\ em.some
                        /\ (nm.some \/ parsed.series_name_from_folder.some)) => parsed.result.some
                 /\ parsed.result.some =>
                     /\ parsed.result.val.season = IF sm.some THEN DecimalValue(sm.val)
                                                   ELSE parsed.season_from_folder.val
                     /\ parsed.result.val.episode = DecimalValue(em.val)
                     /\ IF nm.some
                        THEN Squash(parsed.result.val.series_name) = Squash(nm.val)
                        ELSE parsed.result.val.series_name = parsed.series_name_from_folder.val

\* "S3E01.OnlyEp.mkv" in a folder of season 1 is episode 1 of season 3
C16_Witness ==
    /\ parsed.fn = "tv"
    /\ parsed.path = <<<<"S", "3", "E", "0", "1", ".", "O", "n", "l", "y", "E", "p", ".", "m", "k", "v">>>>
    /\ parsed.season_from_folder = Some(1)
    /\ parsed.series_name_from_folder = Some(<<"L", "o", "s", "t">>)
    /\ parsed.result.some
    /\ parsed.result.val.season = 3
    /\ parsed.result.val.series_name = <<"L", "o", "s", "t">>

\* C17: the outcome of parse_tv_episode_path is decided by the first pattern
\* of the ordered list that matches the file stem: the result is built from
\* that pattern's captures alone, also when a later pattern matches, and no
\* pattern matching means no identity; the same call gives the same result.
C17_FirstMatchingPatternDecides ==
    parsed.fn = "tv" =>
        /\ parsed.result = parse_tv_episode_path(parsed.path, parsed.series_name_from_folder,
                                                 parsed.season_from_folder)
        /\ IF Matching(TV_PATTERNS_RE, ParsedStem) = {} THEN parsed.result = None
           ELSE LET i == FirstMatching(TV_PATTERNS_RE, ParsedStem) IN
                parsed.result = tv_fields(ParsedStem, captures(TV_PATTERNS_RE[i], ParsedStem).val,
                                          parsed.path, parsed.series_name_from_folder,
                                          parsed.season_from_folder)

\* "Show.E0102.mkv" without a folder season: the name-then-Eyy pattern matches
\* first and gives no season, the compact pattern (the last) matches too and
\* would give season 1
C17_Witness ==
    /\ parsed.fn = "tv"
    /\ parsed.path = <<<<"S", "h", "o", "w", ".", "E", "0", "1", "0", "2", ".", "m", "k", "v">>>>
    /\ parsed.season_from_folder = None
    /\ Matching(TV_PATTERNS_RE, ParsedStem) = {5, 7, 9}
    /\ parsed.result = None

\* C18: parse_movie_filename returns the name and the year captured by the
\* first pattern of the ordered list that matches the file stem, never those
\* of a later pattern, and no identity exactly when no pattern matches.
C18_MovieFirstMatchWins ==
    parsed.fn = "movie" =>
        /\ parsed.result.some <=> Matching(MOVIE_PATTERNS_RE, ParsedStem) # {}
        /\ parsed.result.some =>
            LET m == captures(MOVIE_PATTERNS_RE[FirstMatching(MOVIE_PATTERNS_RE, ParsedStem)],
                              ParsedStem).val
            IN  /\ replace_dots(parsed.result.val.name)
                     = replace_dots(cap_name(ParsedStem, m, "name").val)
                /\ parsed.result.val.year = Some(DecimalValue(cap_name(ParsedStem, m, "year").val))

\* "Alien 1979 (1986).mkv": the bracketed-year pattern and the bare-year
\* pattern both match and give different names and years
C18_Witness ==
    /\ parsed.fn = "movie"
    /\ parsed.path = <<<<"A", "l", "i", "e", "n", " ", "1", "9", "7", "9", " ", "(", "1", "9", "8", "6", ")", ".", "m", "k", "v">>>>
    /\ Matching(MOVIE_PATTERNS_RE, ParsedStem) = {2, 5}
    /\ parsed.result.some
    /\ parsed.result.val.name = <<"A", "l", "i", "e", "n", " ", "1", "9", "7", "9">>
    /\ parsed.result.val.year = Some(1986)

\* C19: the series name parse_tv_episode_path returns for a captured name is
\* the name the movie rule gives: dots replaced by spaces only when the
\* captured name has no space and has a dot, otherwise the name verbatim.
C19_TvNameRuleIsMovieNameRule ==
    (parsed.fn = "tv" /\ parsed.result.some) =>
        LET m == captures(TV_PATTERNS_RE[FirstMatching(TV_PATTERNS_RE, ParsedStem)],
                          ParsedStem).val
            nm == cap_name(ParsedStem, m, "name")
        IN  nm.some => parsed.result.val.series_name = movie_name_rule(nm.val)

\* C20: the year parse_series_folder_name returns is absent or within
\* [1900, 2050), whether the season patterns matched or not.
C20_FolderYearIsPlausible ==
    parsed.fn = "folder" =>
        (parsed.result[3].some => (parsed.result[3].val >= 1900 /\ parsed.result[3].val < 2050))

\* "Show.2077.S01": a season pattern matches and the four-digit token is
\* rejected in the whole name and in the derived series name
C20_Witness ==
    /\ parsed.fn = "folder"
    /\ parsed.path = <<<<"S", "h", "o", "w", ".", "2", "0", "7", "7", ".", "S", "0", "1">>>>
    /\ parsed.result = <<Some(<<"S", "h", "o", "w", " ", "2", "0", "7", "7">>), Some(1), None>>

\* a text without the four digits it ends with (bare or bracketed, not the
\* tail of a longer number) and without the separators before them
WithoutTrailingYear(s) ==
    LET d == IF s # <<>> /\ s[Len(s)] \in {")", "]"} THEN Len(s) - 1 ELSE Len(s)
        open == IF d >= 5 /\ s[d - 4] \in {"(", "["} THEN 1 ELSE 0
        isYear == /\ d >= 4
                  /\ \A j \in (d - 3)..d : s[j] \in Digits
                  /\ (d >= 5 => s[d - 4] \notin Digits)
        keep == {i \in 1..(d - 4 - open) : s[i] \notin Sep}
    IN  IF ~isYear THEN s
        ELSE IF keep = {} THEN <<>>
        ELSE trim(SubSeq(s, 1, CHOOSE i \in keep : \A j \in keep : j <= i))

\* C28: parse_series_folder_name reports the year apart from the name. When
\* no season pattern matches, the season is absent and the name is the whole
\* folder name, dots as spaces and trimmed, without its trailing year token
\* when a year is returned; when the first matching season pattern captured a
\* name, the name is that capture, dots as spaces and trimmed, year text
\* kept, and the year found in the folder name is returned.
C28_YearApartFromName ==
    parsed.fn = "folder" =>
        LET f == parsed.path[1]
            whole == trim(replace_dots(f))
        IN  IF Matching(SEASON_FOLDER_PATTERNS_RE, f) = {}
            THEN /\ parsed.result[2] = None
                 /\ parsed.result[1] = non_empty(IF parsed.result[3].some
                                                 THEN WithoutTrailingYear(whole) ELSE whole)
            ELSE LET nm == cap_name(f, captures(SEASON_FOLDER_PATTERNS_RE[
                                FirstMatching(SEASON_FOLDER_PATTERNS_RE, f)], f).val, "name")
                 IN  nm.some =>
                        /\ parsed.result[1] = non_empty(trim(replace_dots(nm.val)))
                        /\ find_year(f).some => parsed.result[3] = find_year(f)

\* where the k-th of the texts starts when they are laid out one space apart
RECURSIVE StartOf(_, _)
StartOf(texts, k) == IF k = 1 THEN 1 ELSE StartOf(texts, k - 1) + Len(texts[k - 1]) + 1

\* C26: build_meta_string returns the present fields among genre, cast,
\* director and writer, in that order, one space between neighbours and
\* nothing for an absent field; it is empty when all four are absent.
C26_MetaIsPresentFieldsJoined ==
    parsed.fn = "meta" =>
        LET present == SelectSeq(parsed.args, LAMBDA f : f.some)
            texts == [k \in 1..Len(present) |-> present[k].val]
            n == Len(texts)
        IN  /\ n = 0 => parsed.result = <<>>
            /\ n > 0 => Len(parsed.result) = StartOf(texts, n) + Len(texts[n]) - 1
            /\ \A k \in 1..n :
                    SubSeq(parsed.result, StartOf(texts, k), StartOf(texts, k) + Len(texts[k]) - 1)
                        = texts[k]
            /\ \A k \in 2..n : parsed.result[StartOf(texts, k) - 1] = " "

\* cast and writer present, genre and director absent
C26_Witness ==
    /\ parsed.fn = "meta"
    /\ parsed.args = <<None, Some(<<"A", "l", " ", "B", "o">>), None, Some(<<"D", "i", " ", "E", "m">>)>>
    /\ parsed.result = <<"A", "l", " ", "B", "o", " ", "D", "i", " ", "E", "m">>

----------------------------------------------------------------------------
(* SpecScan: scan_tv_directory called repeatedly on one unchanged directory  *)
(* tree.  read_dir promises no order, so every call may list the entries of  *)
(* every directory in any order.                                             *)

MaxScans == 2

\* season subfolder, unrecognized subfolder, episode file in the series folder
TreeSeasons ==
    <<Dir(<<"S", "h", "o", "w">>, <<Dir(<<"S", "e", "a", "s", "o", "n", " ", "1">>, <<File(<<"E", "0", "1", ".", "m", "k", "v">>), File(<<"S", "0", "2", "E", "0", "2", ".", "m", "k", "v">>)>>),
                      Dir(<<"E", "x", "t", "r", "a", "s">>, <<File(<<"E", "0", "5", ".", "m", "k", "v">>)>>),
                      File(<<"E", "0", "7", ".", "m", "k", "v">>)>>)>>
\* two top-level folders that declare a season of the same series
TreeSeasonFolders ==
    <<Dir(<<"S", "h", "o", "w", " ", "S", "0", "1">>, <<File(<<"E", "0", "1", ".", "m", "k", "v">>), File(<<"S", "h", "o", "w", ".", "E", "0", "2", ".", "m", "p", "4">>)>>),
      Dir(<<"S", "h", "o", "w", " ", "S", "0", "2">>, <<File(<<"E", "0", "1", ".", "m", "k", "v">>)>>)>>
\* one episode in two containers; a series folder without any episode
TreeDuplicates ==
    <<Dir(<<"L", "o", "s", "t", " ", "(", "2", "0", "0", "4", ")">>, <<File(<<"L", "o", "s", "t", ".", "S", "0", "1", "E", "0", "1", ".", "a", "v", "i">>), File(<<"L", "o", "s", "t", ".", "S", "0", "1", "E", "0", "1", ".", "m", "k", "v">>)>>),
      Dir(<<"A", "l", "i", "a", "s">>, <<Dir(<<"E", "x", "t", "r", "a", "s">>, <<File(<<"E", "0", "5", ".", "m", "k", "v">>)>>)>>)>>
\* distinct names and distinct episodes, a file at the top level
TreePlain ==
    <<Dir(<<"B", "e", "t", "a">>, <<File(<<"S", "0", "1", "E", "0", "2", ".", "m", "k", "v">>), File(<<"S", "0", "1", "E", "0", "1", ".", "m", "k", "v">>)>>),
      Dir(<<"A", "l", "p", "h", "a">>, <<File(<<"1", "x", "0", "1", ".", "m", "k", "v">>)>>),
      File(<<"r", "e", "a", "d", "m", "e", ".", "t", "x", "t">>)>>
\* a top-level folder that is only a season; a compact file name; a file that
\* is no video
TreeNameless ==
    <<Dir(<<"S", "e", "a", "s", "o", "n", " ", "1">>, <<File(<<"E", "0", "1", ".", "m", "k", "v">>)>>),
      Dir(<<"G", "a", "m", "m", "a">>, <<Dir(<<"S", "e", "a", "s", "o", "n", " ", "2">>, <<File(<<"E", "p", ".", "E", "0", "3", ".", "m", "k", "v">>), File(<<"t", "l", "o", "o", "p", "0", "1", "0", "8", ".", "m", "p", "4">>)>>),
                       File(<<"E", "0", "4", ".", "t", "x", "t">>)>>)>>

\* beside a video file: a subtitle file with an episode name, an upper-case
\* extension, a directory named like a video file
TreeSidecars ==
    <<Dir(<<"S", "h", "o", "w", " ", "S", "0", "1">>, <<File(<<"E", "0", "1", ".", "s", "r", "t">>), File(<<"E", "0", "2", ".", "M", "K", "V">>), Dir(<<"E", "0", "4", ".", "m", "k", "v">>, <<>>)>>)>>
\* video files below the depth the walker reads
TreeDeep ==
    <<Dir(<<"S", "h", "o", "w", " ", "S", "0", "1">>, <<File(<<"E", "0", "1", ".", "m", "k", "v">>), Dir(<<"S", "u", "b">>, <<File(<<"E", "0", "2", ".", "m", "k", "v">>)>>)>>),
      Dir(<<"A", "l", "i", "a", "s">>, <<Dir(<<"S", "e", "a", "s", "o", "n", " ", "1">>, <<File(<<"E", "0", "1", ".", "m", "k", "v">>),
                                          Dir(<<"D", "e", "e", "p">>, <<File(<<"E", "0", "3", ".", "m", "k", "v">>)>>)>>)>>)>>
\* a series folder that cannot be read beside one that can
TreeUnreadable ==
    <<Dir(<<"L", "o", "s", "t">>, <<File(<<"L", "o", "s", "t", ".", "S", "0", "1", "E", "0", "1", ".", "m", "k", "v">>)>>), Unreadable(<<"B", "r", "o", "k", "e", "n">>)>>
\* a season subfolder that cannot be read
TreeUnreadableSeason ==
    <<Dir(<<"S", "h", "o", "w">>, <<Unreadable(<<"S", "e", "a", "s", "o", "n", " ", "1">>), File(<<"S", "h", "o", "w", ".", "S", "0", "1", "E", "0", "1", ".", "m", "k", "v">>)>>),
      Dir(<<"L", "o", "s", "t">>, <<File(<<"L", "o", "s", "t", ".", "S", "0", "1", "E", "0", "1", ".", "m", "k", "v">>)>>)>>
\* unreadable directories the walker never lists: a subfolder of a folder that
\* declares a season, a top-level folder without a series name
TreeUnvisited ==
    <<Dir(<<"B", "e", "t", "a", " ", "S", "0", "1">>, <<File(<<"E", "0", "1", ".", "m", "k", "v">>), Unreadable(<<"E", "x", "t", "r", "a", "s">>)>>), Unreadable(<<"S", "e", "a", "s", "o", "n", " ", "9">>)>>

SampleTrees ==
    {TreeSeasons, TreeSeasonFolders, TreeDuplicates, TreePlain, TreeNameless, TreeSidecars,
     TreeDeep, TreeUnreadable, TreeUnreadableSeason, TreeUnvisited}

Perms(n) == {p \in [1..n -> 1..n] : \A i, j \in 1..n : i # j => p[i] # p[j]}

\* every order in which read_dir may list a directory and the directories below it
RECURSIVE read_dir_orders(_)
read_dir_orders(entries) ==
    IF entries = <<>> THEN {<<>>}
    ELSE LET n == Len(entries)
             subs == [i \in 1..n |-> read_dir_orders(entries[i].entries)]
             picks == {f \in [1..n -> UNION {subs[i] : i \in 1..n}] : \A i \in 1..n : f[i] \in subs[i]}
         IN  {[k \in 1..n |-> [entries[p[k]] EXCEPT !.entries = f[p[k]]]] :
                 p \in Perms(n), f \in picks}

InitScan ==
    /\ movies = {}
    /\ tv_series = {}
    /\ tv_episodes = {}
    /\ lastStore = NeverStored
    /\ looked = NoLookup
    /\ nops = 0
    /\ writers = WritersIdle
    /\ landed = <<>>
    /\ RunIdle
    /\ parsed = NoParse
    /\ tree \in SampleTrees
    /\ scans = <<>>
    /\ nscans = 0

\* the two latest scans
Latest(s) == IF Len(s) > 2 THEN SubSeq(s, Len(s) - 1, Len(s)) ELSE s

ScanTvDirectory ==
    /\ nscans < MaxScans
    /\ \E listing \in read_dir_orders(tree) :
        scans' = Latest(Append(scans, [read |-> listing, ioerr |-> FALSE,
                                       result |-> scan_tv_directory(<<>>, listing, FALSE)]))
    /\ nscans' = nscans + 1
    /\ UNCHANGED <<cacheVars, lastStore, looked, nops, writers, landed, runVars, parsed, tree>>

\* read_dir(tv_base_path) fails: nothing is listed
ScanTvDirectoryIoError ==
    /\ nscans < MaxScans
    /\ scans' = Latest(Append(scans, [read |-> <<>>, ioerr |-> TRUE,
                                      result |-> scan_tv_directory(<<>>, <<>>, TRUE)]))
    /\ nscans' = nscans + 1
    /\ UNCHANGED <<cacheVars, lastStore, looked, nops, writers, landed, runVars, parsed, tree>>

NextScan == ScanTvDirectory \/ ScanTvDirectoryIoError

SpecScan == InitScan /\ [][NextScan]_vars

----------------------------------------------------------------------------
(* Properties of the walker *)

OkScans == {i \in 1..Len(scans) : scans[i].result.ok}
SeriesOf(i) == scans[i].result.val
AllEpisodes(i) == UNION {{SeriesOf(i)[k].episodes[e] : e \in 1..Len(SeriesOf(i)[k].episodes)} :
                            k \in 1..Len(SeriesOf(i))}
EpisodesAt(i, path) == {ep \in AllEpisodes(i) : ep.path.bytes = path}
Entries(listing) == {listing[k] : k \in 1..Len(listing)}
IsPrefix(p, q) == Len(p) <= Len(q) /\ SubSeq(q, 1, Len(p)) = p

\* C11: every series scan_tv_directory returns has at least one episode, and
\* its episodes are files below the series folder: a series folder none of
\* whose files is classified is not in the result.
C11_NoSeriesWithoutEpisodes ==
    \A i \in OkScans : \A k \in 1..Len(SeriesOf(i)) :
        /\ Len(SeriesOf(i)[k].episodes) >= 1
        /\ \A e \in 1..Len(SeriesOf(i)[k].episodes) :
            IsPrefix(SeriesOf(i)[k].path.bytes, SeriesOf(i)[k].episodes[e].path.bytes)

\* the folder "Alias" holds a video file in an unrecognized subfolder, and is
\* left out while "Lost (2004)" is returned
C11_Witness ==
    \E i \in OkScans :
        /\ \E d \in Entries(scans[i].read) : d.name = <<"A", "l", "i", "a", "s">> /\ d.dir /\ d.entries # <<>>
        /\ \E k \in 1..Len(SeriesOf(i)) : SeriesOf(i)[k].path.bytes = <<<<"L", "o", "s", "t", " ", "(", "2", "0", "0", "4", ")">>>>
        /\ \A k \in 1..Len(SeriesOf(i)) : SeriesOf(i)[k].path.bytes # <<<<"A", "l", "i", "a", "s">>>>

\* C12: in the result of scan_tv_directory every episode list is ascending by
\* (season, episode) and the series list is ascending by name, whatever the
\* order of the directory listings.
C12_ListsAreSorted ==
    \A i \in OkScans :
        /\ \A a, b \in 1..Len(SeriesOf(i)) :
            a < b => ~StrLess(SeriesOf(i)[b].name, SeriesOf(i)[a].name)
        /\ \A k \in 1..Len(SeriesOf(i)) :
            \A a, b \in 1..Len(SeriesOf(i)[k].episodes) :
                a < b => ~EpisodeKeyLess(SeriesOf(i)[k].episodes[b], SeriesOf(i)[k].episodes[a])

\* read_dir listed "Beta" before "Alpha" and episode 2 before episode 1
C12_Witness ==
    \E i \in OkScans :
        /\ Len(scans[i].read) = 3
        /\ scans[i].read[1].name = <<"B", "e", "t", "a">>
        /\ scans[i].read[1].entries[1].name = <<"S", "0", "1", "E", "0", "2", ".", "m", "k", "v">>
        /\ scans[i].read[2].name = <<"A", "l", "p", "h", "a">>
        /\ Len(SeriesOf(i)) = 2
        /\ SeriesOf(i)[1].name = <<"A", "l", "p", "h", "a">>
        /\ SeriesOf(i)[2].episodes[1].episode = 1
        /\ SeriesOf(i)[2].episodes[2].episode = 2

\* C13: two scans of the unchanged tree return the same series lists and the
\* same episode lists in the same order, whatever order each directory
\* listing came in.
C13_RescanIsIdentical ==
    (Len(scans) = 2 /\ scans[1].result.ok /\ scans[2].result.ok) =>
        scans[1].result = scans[2].result

\* C14: within every series returned by scan_tv_directory no two episodes
\* carry the same (series name, season, episode).
C14_EpisodeTripleIsUnique ==
    \A i \in OkScans : \A k \in 1..Len(SeriesOf(i)) :
        \A a, b \in 1..Len(SeriesOf(i)[k].episodes) :
            LET x == SeriesOf(i)[k].episodes[a]
                y == SeriesOf(i)[k].episodes[b]
            IN  (a # b) => <<x.series_name, x.season, x.episode>> # <<y.series_name, y.season, y.episode>>

\* a video file whose name carries an episode number and no season token: the
\* first pattern matching its stem captures no season
NoSeasonToken(name) ==
    LET stem == file_stem(name).val IN
    /\ is_video_file(<<name>>)
    /\ Matching(TV_PATTERNS_RE, stem) # {}
    /\ ~cap_name(stem, captures(TV_PATTERNS_RE[FirstMatching(TV_PATTERNS_RE, stem)], stem).val,
                 "season").some
FilesOf(d) == {f \in Entries(d.entries) : ~f.dir /\ NoSeasonToken(f.name)}
SubDirsOf(d) == {s \in Entries(d.entries) : s.dir}
SeriesFolders(i) == {d \in Entries(scans[i].read) : d.dir /\ parse_series_folder_name(<<d.name>>)[1].some}
FolderSeason(path) == parse_series_folder_name(path)[2]
ResolvesTo(i, path, season) == \E ep \in EpisodesAt(i, path) : ep.season = season

\* C15: an episode file without a season token is an episode of season N when
\* it lies in a folder classified with season N (a top-level folder that
\* declares a season, or a season subfolder of a series folder); in a
\* subfolder without a recognized season, or directly in a series folder that
\* declares no season, it is not in the result.
C15_SeasonFromFolderContext ==
    \A i \in OkScans : \A d \in SeriesFolders(i) :
        IF FolderSeason(<<d.name>>).some
        THEN \A f \in FilesOf(d) :
                ResolvesTo(i, <<d.name, f.name>>, FolderSeason(<<d.name>>).val)
        ELSE /\ \A f \in FilesOf(d) : EpisodesAt(i, <<d.name, f.name>>) = {}
             /\ \A s \in SubDirsOf(d) : \A f \in FilesOf(s) :
                 IF FolderSeason(<<d.name, s.name>>).some
                 THEN ResolvesTo(i, <<d.name, s.name, f.name>>, FolderSeason(<<d.name, s.name>>).val)
                 ELSE EpisodesAt(i, <<d.name, s.name, f.name>>) = {}

\* "E01.mkv" in "Show/Season 1" is episode 1 of season 1; "E05.mkv" in
\* "Show/Extras" and "E07.mkv" in "Show" are dropped
C15_Witness ==
    \E i \in OkScans :
        /\ tree = TreeSeasons
        /\ ResolvesTo(i, <<<<"S", "h", "o", "w">>, <<"S", "e", "a", "s", "o", "n", " ", "1">>, <<"E", "0", "1", ".", "m", "k", "v">>>>, 1)
        /\ ResolvesTo(i, <<<<"S", "h", "o", "w">>, <<"S", "e", "a", "s", "o", "n", " ", "1">>, <<"S", "0", "2", "E", "0", "2", ".", "m", "k", "v">>>>, 2)
        /\ EpisodesAt(i, <<<<"S", "h", "o", "w">>, <<"E", "x", "t", "r", "a", "s">>, <<"E", "0", "5", ".", "m", "k", "v">>>>) = {}
        /\ EpisodesAt(i, <<<<"S", "h", "o", "w">>, <<"E", "0", "7", ".", "m", "k", "v">>>>) = {}
        /\ Cardinality(AllEpisodes(i)) = 2

----------------------------------------------------------------------------
(* Properties of the walker: what it reads and what stops it *)

ClaimedVideoExtensions == {<<"m", "k", "v">>, <<"m", "p", "4">>, <<"a", "v", "i">>, <<"m", "o", "v">>, <<"w", "m", "v">>, <<"f", "l", "v">>, <<"w", "e", "b", "m">>}

\* name ends with a dot and one of the video extensions, in any letter case
HasVideoExtension(name) ==
    \E x \in ClaimedVideoExtensions :
        /\ Len(name) > Len(x) + 1
        /\ name[Len(name) - Len(x)] = "."
        /\ \A j \in 1..Len(x) : to_lowercase_char(name[Len(name) - Len(x) + j]) = x[j]

\* the entry a path below the root names
RECURSIVE EntryAt(_, _)
EntryAt(listing, path) ==
    LET hits == {k \in 1..Len(listing) : listing[k].name = Head(path)} IN
    IF hits = {} THEN None
    ELSE IF Len(path) = 1 THEN Some(listing[CHOOSE k \in hits : TRUE])
    ELSE EntryAt(listing[CHOOSE k \in hits : TRUE].entries, Tail(path))

\* the listing without the files that have no video extension
RECURSIVE WithoutOtherFiles(_)
WithoutOtherFiles(listing) ==
    LET kept == SelectSeq(listing, LAMBDA e : e.dir \/ HasVideoExtension(e.name)) IN
    [k \in 1..Len(kept) |-> [kept[k] EXCEPT !.entries = WithoutOtherFiles(kept[k].entries)]]

\* C21: every episode scan_tv_directory returns is a regular file whose
\* extension is, in any letter case, one of mkv, mp4, avi, mov, wmv, flv, webm;
\* every other file is ignored and causes no error: the scan returns what it
\* returns for the same listing without those files.
C21_OnlyVideoFilesBecomeEpisodes ==
    \A i \in 1..Len(scans) :
        /\ scans[i].result.ok =>
            \A ep \in AllEpisodes(i) :
                LET e == EntryAt(scans[i].read, ep.path.bytes) IN
                e.some /\ ~e.val.dir /\ HasVideoExtension(e.val.name)
        /\ ~scans[i].ioerr =>
            scans[i].result = scan_tv_directory(<<>>, WithoutOtherFiles(scans[i].read), FALSE)

\* of "E01.srt", "E02.MKV" and the directory "E04.mkv" in "Show S01" only
\* "E02.MKV" is an episode
C21_Witness ==
    \E i \in OkScans :
        /\ tree = TreeSidecars
        /\ Cardinality(AllEpisodes(i)) = 1
        /\ ResolvesTo(i, <<<<"S", "h", "o", "w", " ", "S", "0", "1">>, <<"E", "0", "2", ".", "M", "K", "V">>>>, 1)

\* the directories below the root the walker lists: the top-level folders
\* with a series name and, when such a folder declares no season, its subfolders
ListedFolders(i) ==
    SeriesFolders(i)
    \cup UNION {SubDirsOf(d) : d \in {x \in SeriesFolders(i) : ~FolderSeason(<<x.name>>).some}}

\* C22: when read_dir fails on the library root, on a series folder or on a
\* season subfolder, scan_tv_directory returns an error value and no series list.
C22_ReadFailureIsAnError ==
    \A i \in 1..Len(scans) :
        (scans[i].ioerr \/ \E d \in ListedFolders(i) : d.fails) => scans[i].result = Err("io")

\* the root is listed, the season subfolder "Show/Season 1" cannot be read
C22_Witness ==
    \E i \in 1..Len(scans) :
        /\ tree = TreeUnreadableSeason
        /\ ~scans[i].ioerr
        /\ ~scans[i].result.ok

\* the listing without the directories read_dir fails on
RECURSIVE WithoutUnreadable(_)
WithoutUnreadable(listing) ==
    LET kept == SelectSeq(listing, LAMBDA e : ~e.fails) IN
    [k \in 1..Len(kept) |-> [kept[k] EXCEPT !.entries = WithoutUnreadable(kept[k].entries)]]

\* C23: when the root can be listed, a series folder or season subfolder that
\* cannot be read does not remove the readable series: every series the walk
\* returns for the readable part of the tree is in the result.
C23_ReadableSeriesSurvive ==
    \A i \in 1..Len(scans) :
        ~scans[i].ioerr =>
            LET readable == scan_tv_directory(<<>>, WithoutUnreadable(scans[i].read), FALSE) IN
            /\ scans[i].result.ok
            /\ \A k \in 1..Len(readable.val) :
                \E j \in 1..Len(scans[i].result.val) : scans[i].result.val[j] = readable.val[k]

\* C27: every episode in the result is a file directly in its series folder or
\* directly in a subfolder of it, and when the series folder itself declares a
\* season every episode is a file directly in it.
C27_FixedDepth ==
    \A i \in OkScans : \A k \in 1..Len(SeriesOf(i)) :
        LET d == SeriesOf(i)[k].path.bytes IN
        /\ Len(d) = 1
        /\ \A e \in 1..Len(SeriesOf(i)[k].episodes) :
            LET p == SeriesOf(i)[k].episodes[e].path.bytes IN
            /\ IsPrefix(d, p)
            /\ Len(p) \in {2, 3}
            /\ EntryAt(scans[i].read, p).some
            /\ ~EntryAt(scans[i].read, p).val.dir
            /\ FolderSeason(d).some => Len(p) = 2

\* "Show S01/Sub/E02.mkv" and "Alias/Season 1/Deep/E03.mkv" are not read
C27_Witness ==
    \E i \in OkScans :
        /\ tree = TreeDeep
        /\ Cardinality(AllEpisodes(i)) = 2
        /\ ResolvesTo(i, <<<<"S", "h", "o", "w", " ", "S", "0", "1">>, <<"E", "0", "1", ".", "m", "k", "v">>>>, 1)
        /\ ResolvesTo(i, <<<<"A", "l", "i", "a", "s">>, <<"S", "e", "a", "s", "o", "n", " ", "1">>, <<"E", "0", "1", ".", "m", "k", "v">>>>, 1)

----------------------------------------------------------------------------
(* Properties of the search index *)

RECURSIVE Flatten(_)
Flatten(seqs) == IF seqs = <<>> THEN <<>> ELSE Head(seqs) \o Flatten(Tail(seqs))

\* the episodes of the run, series by series, each with its series
EpisodeUnits ==
    Flatten([k \in 1..Len(all_tv_series) |->
                [e \in 1..Len(all_tv_series[k][1].episodes) |->
                    [series |-> all_tv_series[k][1], episode |-> all_tv_series[k][1].episodes[e]]]])

\* C24: the id of every entry of the search index is the id generated from
\* the filesystem path of its subject and its type tag: the movie's file, the
\* series' folder, the episode's file.
C24_IdFromSubjectPath ==
    search_index.some =>
        LET entries == search_index.val
            nm == Len(all_movie_infos)
            ns == Len(all_tv_series)
        IN  /\ \A i \in 1..nm : entries[i].id = generate_id(all_movie_infos[i].path, "movie")
            /\ \A j \in 1..ns : entries[nm + j].id = generate_id(all_tv_series[j][1].path, "series")
            /\ \A k \in 1..Len(EpisodeUnits) :
                entries[nm + ns + k].id = generate_id(EpisodeUnits[k].episode.path, "episode")

\* C25: the search index is, in this order and with nothing else, one entry
\* per resolved movie in resolution order, one entry per series in the order
\* they were pushed, and one entry per episode, series by series.
C25_CatalogInInsertionOrder ==
    search_index.some =>
        LET entries == search_index.val
            resolved == OkVals(movie_results)
            nm == Len(resolved)
            ns == Len(all_tv_series)
        IN  /\ Len(entries) = nm + ns + Len(EpisodeUnits)
            /\ \A i \in 1..nm :
                /\ entries[i].media_type = "movie"
                /\ entries[i].title[1] = resolved[i].name
                /\ entries[i].url = page_name(resolved[i].path)
            /\ \A j \in 1..ns :
                /\ entries[nm + j].media_type = "series"
                /\ entries[nm + j].title[1] = all_tv_series[j][1].name
                /\ entries[nm + j].url = page_name(all_tv_series[j][1].path)
            /\ \A k \in 1..Len(EpisodeUnits) :
                /\ entries[nm + ns + k].media_type = "episode"
                /\ entries[nm + ns + k].title[1] = EpisodeUnits[k].series.name
                /\ entries[nm + ns + k].id = generate_id(EpisodeUnits[k].episode.path, "episode")

\* two movies, then the series "Lost", then its two episodes
C25_Witness ==
    /\ search_index.some
    /\ Len(movie_files) = 2
    /\ Len(all_movie_infos) = 2
    /\ Len(all_tv_series) = 1
    /\ Len(search_index.val) = 5
    /\ [i \in 1..5 |-> search_index.val[i].media_type]
         = <<"movie", "movie", "series", "episode", "episode">>

\* C29: no two entries of the search index of a run have the same id.
C29_IdsAreUnique ==
    search_index.some =>
        \A i, j \in 1..Len(search_index.val) :
            i # j => search_index.val[i].id # search_index.val[j].id

\* C30: every record of the movies table is stored under the hash of its own
\* path field, and a cache hit returns a record whose path is the path of
\* the file being resolved.
C30_RecordsKeyedByOwnPath ==
    /\ \A r \in movies :
        (row_get(r.json_data).ok /\ from_str(r.json_data).ok) =>
            r.path_hash = PathHash(from_str(r.json_data).val.path)
    /\ (last.kind = "movie" /\ cache /\ ~last.fetched /\ last.result.ok) =>
            last.result.val.path = last.key.path

\* the second resolution of a run hits the record the first one fetched and stored
C30_Witness ==
    /\ cache
    /\ last.kind = "movie"
    /\ last.n = 2
    /\ Len(requests) = 1
    /\ ~last.fetched
    /\ movie_results[1].ok
    /\ last.result = movie_results[1]
    /\ movie_files[1] = movie_files[2]
    /\ \E r \in movies :
        /\ r.path_hash = PathHash(last.key.path)
        /\ from_str(r.json_data) = Ok(last.result.val)

====
